---------------------------- MODULE Spec2Model ----------------------------
(***************************************************************************)
(* Model of the Slack MCP server: the OAuth link flow                      *)
(* (src/app/oauth/slack.py) over the oauth_states and slack_connections    *)
(* tables (src/app/models.py), and the JSON-RPC protocol engine on its     *)
(* WebSocket, single-shot HTTP and stdio-bridge bindings.                  *)
(*                                                                         *)
(* Python None / absent / empty string are all written "" for Optional[str]*)
(* values: the code only tests their truthiness.  An absent integer is     *)
(* NoneId, an absent row is row index 0.                                   *)
(***************************************************************************)
EXTENDS Integers, Sequences, FiniteSets, TLC

(* ------------------------------- bounds -------------------------------- *)
NumCallbacks == 2      \* /oauth/slack/callback requests in one behaviour
MaxLinkStates == 2     \* /oauth/slack/start requests that create a row
MaxTime == 11          \* the clock stops advancing here (minutes)
NumTasks == 2           \* endpoint tasks that run side by side
MaxMessages == 2       \* requests a client writes on one socket

(* --------------------------- program constants ------------------------- *)
STATE_TTL_MINUTES == 10
HTTP_OK == 200
HTTP_BAD_REQUEST == 400
HTTP_UNAUTHORIZED == 401
HTTP_SERVER_ERROR == 500
HTTP_REDIRECT == 307

NoneId == -1

VARIABLES
    oauth_states,       \* table oauth_states: sequence of rows, index = id
    slack_connections,  \* table slack_connections: sequence of rows, index = id
    now,                \* datetime.utcnow(), in minutes
    cb,                 \* the callback requests: position, parameters, locals
    token_posts,        \* requests that POSTed to the provider's token endpoint
    websocket,          \* the /mcp/slack session: where it stands, its token
    active_connections, \* WebSocket -> user id (websocket_server.py:13)
    bridge,             \* the stdio bridge process: where it stands, SESSION_TOKEN
    sse_transport,      \* the /mcp/sse stream: where it stands, the user it serves
    sessions,           \* /mcp/slack sockets side by side: each one's receive loop
    tasks,              \* asyncio tasks of the three endpoints: locals and context
    exchange            \* the last inbound message and everything it produced

link_vars == <<oauth_states, now, cb, token_posts>>
mcp_vars == <<websocket, active_connections, bridge, sse_transport, sessions, tasks, exchange>>
vars == <<oauth_states, slack_connections, now, cb, token_posts,
          websocket, active_connections, bridge, sse_transport, sessions, tasks, exchange>>

CbIds == 1..NumCallbacks
Users == {1, 2}
Teams == {"T1", "T2"}

(* ---------------------------- session tokens --------------------------- *)
SessionTokens == {"", "jwt-u1", "jwt-u2", "jwt-forged"}

get_user_id_from_session_token(token) ==
    IF token = "" THEN NoneId
    ELSE IF token = "jwt-u1" THEN 1
    ELSE IF token = "jwt-u2" THEN 2
    ELSE NoneId

(* Python truthiness of an Optional[int] user id: None and 0 are falsy. *)
Truthy(user_id) == user_id # NoneId /\ user_id # 0

(* ------------------------------- tables -------------------------------- *)
\* secrets.token_urlsafe(32): a fresh value for every row (the column is unique).
StateTokenOf(n) == "state-" \o ToString(n)

OAuthStateRow(state, user_id, expires_at, created_at) ==
    [provider |-> "slack", state |-> state, user_id |-> user_id,
     used |-> FALSE, created_at |-> created_at, expires_at |-> expires_at]

SlackConnectionRow(user_id, team_id, team_name, token, scope, authed, status, t) ==
    [user_id |-> user_id, slack_team_id |-> team_id, slack_team_name |-> team_name,
     bot_access_token |-> token, scope |-> scope, authed_user_id |-> authed,
     status |-> status, installed_at |-> t, updated_at |-> t]

\* A row written by an earlier link of team T1 by user 1.
OldRow(token, status) ==
    SlackConnectionRow(1, "T1", "old-name", token, "old-scope", "U-old", status, 0)

\* The link flow starts from a table in which that link was revoked since.
InitialConnections == << OldRow("xoxb-old", "revoked") >>

\* query(...).filter(...).first(): the lowest id among the matching rows, 0 for None.
First(S) == IF S = {} THEN 0 ELSE CHOOSE i \in S : \A j \in S : i <= j

QueryState(states, state) ==
    First({ i \in DOMAIN states : states[i].provider = "slack" /\ states[i].state = state })

\* The query without the filter on user_id.
QueryExisting_AnyOwner(conns, user_id, team_id) ==
    First({ i \in DOMAIN conns : conns[i].slack_team_id = team_id })

\* Lines 166-171.
QueryExisting(conns, user_id, team_id) ==
    First({ i \in DOMAIN conns : conns[i].user_id = user_id /\ conns[i].slack_team_id = team_id })

(* --------------------------- /oauth/slack/start ------------------------ *)
\* Lines 52-74: the URL of the redirect: the authorize endpoint and the query
\* parameters that urlencode() appends to it.
NoLocation == [base |-> "", scope |-> "", state |-> ""]
AuthorizeUrl(state) ==
    [base |-> "https://slack.com/oauth/v2/authorize",
     scope |-> "chat:write,channels:history,channels:read,groups:read,users:read",
     state |-> state]

\* slack_oauth_start that does not test the user id.
slack_oauth_start_NoUserCheck(session_token, states, t) ==
    LET user_id == get_user_id_from_session_token(session_token)
        state == StateTokenOf(Len(states) + 1)
    IN  [status |-> HTTP_REDIRECT,
         states |-> Append(states, OAuthStateRow(state, user_id, t + STATE_TTL_MINUTES, t)),
         location |-> AuthorizeUrl(state)]

\* Lines 31-74: the response and the table after the request.
slack_oauth_start(session_token, states, t) ==
    LET user_id == get_user_id_from_session_token(session_token)
        state == StateTokenOf(Len(states) + 1)
    IN  IF ~Truthy(user_id)
        THEN [status |-> HTTP_UNAUTHORIZED, states |-> states, location |-> NoLocation]
        ELSE [status |-> HTTP_REDIRECT,
              states |-> Append(states, OAuthStateRow(state, user_id,
                                                      t + STATE_TTL_MINUTES, t)),
              location |-> AuthorizeUrl(state)]

Start ==
    /\ \E session_token \in SessionTokens :
          LET r == slack_oauth_start(session_token, oauth_states, now) IN
          /\ Len(r.states) <= MaxLinkStates
          /\ now < STATE_TTL_MINUTES      \* states are issued in the first expiry window
          /\ oauth_states' = r.states
    /\ UNCHANGED <<slack_connections, now, cb, token_posts, mcp_vars>>

(* -------------------------- /oauth/slack/callback ---------------------- *)
NoResp ==
    [raised |-> FALSE, ok |-> FALSE, error |-> "", access_token |-> "", team_id |-> ""]

\* The fields of the provider's answer that the answer's team and token decide.
TeamName(team_id) == IF team_id = "" THEN "" ELSE "name-" \o team_id
GrantedScope == "chat:write,channels:history,channels:read,groups:read,users:read"
AuthedUser == "U-new"

IdleCallback ==
    [pc |-> "idle", state |-> "", code |-> "", error |-> "",
     st_id |-> 0, resp |-> NoResp, existing |-> 0,
     status |-> 0, detail |-> "", after |-> {}]

\* What the provider's oauth.v2.access endpoint can answer to request p's code.
\* Every exchange that succeeds issues its own access token.
ProviderResponses(p, code) ==
    IF code = "code-good"
    THEN { [NoResp EXCEPT !.ok = TRUE, !.access_token = "xoxb-" \o ToString(p),
                          !.team_id = t] : t \in Teams }
         \cup { [NoResp EXCEPT !.ok = TRUE, !.team_id = "T1"],
                [NoResp EXCEPT !.ok = TRUE, !.access_token = "xoxb-" \o ToString(p)] }
    ELSE { [NoResp EXCEPT !.error = "invalid_code"],
           NoResp,
           [NoResp EXCEPT !.raised = TRUE] }

\* ValidateState without the check of st.used.
ValidateState_NoUsedCheck(st_used, st_expires_at, t) ==
    IF t > st_expires_at THEN "State expired" ELSE "continue"

\* ValidateState with the expiry compared by >=.
ValidateState_ExpiredAtBoundary(st_used, st_expires_at, t) ==
    IF st_used THEN "State already used"
    ELSE IF t >= st_expires_at THEN "State expired"
    ELSE "continue"

\* ValidateState that looks at the expiry before the used flag.
ValidateState_ExpiryFirst(st_used, st_expires_at, t) ==
    IF t > st_expires_at THEN "State expired"
    ELSE IF st_used THEN "State already used"
    ELSE "continue"

\* Lines 109-113: the checks made on the fetched row, in the code's order.
ValidateState(st_used, st_expires_at, t) ==
    IF st_used THEN "State already used"
    ELSE IF t > st_expires_at THEN "State expired"
    ELSE "continue"

\* Lines 117-124: the checks made on the request's error and code.
ValidateParams(error, code) ==
    IF error # "" THEN "OAuth error: " \o error
    ELSE IF code = "" THEN "Missing code from Slack"
    ELSE "continue"

\* ExchangeOutcome without the check of the answer's ok flag.
ExchangeOutcome_NoOkCheck(resp) ==
    IF resp.raised THEN [status |-> HTTP_SERVER_ERROR, detail |-> "Internal Server Error"]
    ELSE IF resp.access_token = "" \/ resp.team_id = ""
    THEN [status |-> HTTP_SERVER_ERROR, detail |-> "Internal Server Error"]
    ELSE [status |-> HTTP_OK, detail |-> "continue"]

\* Lines 136-162: the checks made on the provider's answer.
ExchangeOutcome(resp) ==
    IF resp.raised THEN [status |-> HTTP_SERVER_ERROR, detail |-> "Internal Server Error"]
    ELSE IF ~resp.ok
    THEN [status |-> HTTP_BAD_REQUEST,
          detail |-> "Slack OAuth token exchange failed: "
                     \o (IF resp.error = "" THEN "unknown_error" ELSE resp.error)]
    ELSE IF resp.access_token = "" \/ resp.team_id = ""
    \* HTTPException(status_code = 400, details = ...) raises TypeError
    THEN [status |-> HTTP_SERVER_ERROR, detail |-> "Internal Server Error"]
    ELSE [status |-> HTTP_OK, detail |-> "continue"]

\* MarkUsed that releases every other row.
MarkUsed_ReleasesOthers(states, id) ==
    [i \in DOMAIN states |-> [states[i] EXCEPT !.used = (i = id)]]

\* st.used = True, as written by db.commit().
MarkUsed(states, id) == [states EXCEPT ![id].used = TRUE]

\* Lines 173-189: update the row found, or add a new one.
Upsert(conns, existing, user_id, resp, t) ==
    IF existing # 0
    THEN [conns EXCEPT ![existing].bot_access_token = resp.access_token,
                       ![existing].scope = GrantedScope,
                       ![existing].authed_user_id = AuthedUser,
                       ![existing].status = "active",
                       ![existing].slack_team_name = TeamName(resp.team_id),
                       ![existing].updated_at = t]
    ELSE Append(conns, SlackConnectionRow(user_id, resp.team_id, TeamName(resp.team_id),
                    resp.access_token, GrantedScope, AuthedUser, "active", t))

\* The request returns: its locals are gone, its parameters and response stay.
Finish(p, status, detail) ==
    [cb EXCEPT ![p] = [IdleCallback EXCEPT !.pc = "done", !.state = cb[p].state,
                                           !.st_id = cb[p].st_id,
                                           !.after = cb[p].after,
                                           !.status = status, !.detail = detail]]

\* A request is split at its accesses to the shared tables: the query for its
\* state row (with the clock read that follows it), the commit of a denial or the
\* query for an existing connection, and the final commit.  What lies between
\* two accesses touches only the request's locals and the provider.

\* Lines 95-162 as a function of what the request reads: the tables, the clock,
\* its parameters and the provider's answer.  pc is where the request stands
\* afterwards, posted whether the token endpoint was called.
ArriveOutcome(states, t, state, code, error, resp) ==
    LET id == QueryState(states, state)
        row == IF state = "" THEN "Invalid or missing state"
               ELSE IF id = 0 THEN "Invalid or expired state"
               ELSE ValidateState(states[id].used, states[id].expires_at, t)
        params == ValidateParams(error, code)
        answer == ExchangeOutcome(resp)
    IN  IF row # "continue"
        THEN [pc |-> "done", st_id |-> id, status |-> HTTP_BAD_REQUEST, detail |-> row,
              posted |-> FALSE]
        ELSE IF error # ""
        THEN [pc |-> "denied", st_id |-> id, status |-> 0, detail |-> "", posted |-> FALSE]
        ELSE IF params # "continue"
        THEN [pc |-> "done", st_id |-> id, status |-> HTTP_BAD_REQUEST, detail |-> params,
              posted |-> FALSE]
        ELSE IF answer.detail # "continue"
        THEN [pc |-> "done", st_id |-> id, status |-> answer.status,
              detail |-> answer.detail, posted |-> TRUE]
        ELSE [pc |-> "exchanged", st_id |-> id, status |-> 0, detail |-> "",
              posted |-> TRUE]

\* The request arrives and runs up to its second access to the tables.
CallbackArrive(p, state, code, error, resp) ==
    /\ cb[p].pc = "idle"
    /\ \A q \in CbIds : q < p => cb[q].pc # "idle"    \* ids are given in arrival order
    /\ LET out == ArriveOutcome(oauth_states, now, state, code, error, resp) IN
       /\ cb' = [cb EXCEPT ![p] =
               [IdleCallback EXCEPT
                   !.pc = out.pc, !.state = state, !.st_id = out.st_id,
                   !.error = IF out.pc = "denied" THEN error ELSE "",
                   !.resp = IF out.pc = "exchanged" THEN resp ELSE NoResp,
                   !.status = out.status, !.detail = out.detail,
                   !.after = { q \in CbIds : cb[q].pc = "done" /\ cb[q].state = state }]]
       /\ token_posts' = IF out.posted THEN token_posts \cup {p} ELSE token_posts
    /\ UNCHANGED <<oauth_states, slack_connections, now, mcp_vars>>

\* CallbackDenied that raises without st.used = True.
CallbackDenied_NoCommit(p) ==
    /\ cb[p].pc = "denied"
    /\ cb' = Finish(p, HTTP_BAD_REQUEST, ValidateParams(cb[p].error, ""))
    /\ UNCHANGED <<oauth_states, slack_connections, now, token_posts, mcp_vars>>

\* CallbackDenied that consumes every state of the table.
CallbackDenied_ConsumesAll(p) ==
    /\ cb[p].pc = "denied"
    /\ oauth_states' = [i \in DOMAIN oauth_states |-> [oauth_states[i] EXCEPT !.used = TRUE]]
    /\ cb' = Finish(p, HTTP_BAD_REQUEST, ValidateParams(cb[p].error, ""))
    /\ UNCHANGED <<slack_connections, now, token_posts, mcp_vars>>

\* Lines 117-121: the provider reported a denial: st.used = True is committed.
CallbackDenied(p) ==
    /\ cb[p].pc = "denied"
    /\ oauth_states' = MarkUsed(oauth_states, cb[p].st_id)
    /\ cb' = Finish(p, HTTP_BAD_REQUEST, ValidateParams(cb[p].error, ""))
    /\ UNCHANGED <<slack_connections, now, token_posts, mcp_vars>>

\* Lines 166-171: is there a row of (user_id, team_id)?
CallbackQueryExisting(p) ==
    /\ cb[p].pc = "exchanged"
    /\ cb' = [cb EXCEPT ![p].pc = "commit",
                        ![p].existing = QueryExisting(slack_connections,
                                                      oauth_states[cb[p].st_id].user_id,
                                                      cb[p].resp.team_id)]
    /\ UNCHANGED <<oauth_states, slack_connections, now, token_posts, mcp_vars>>

\* CallbackCommit that commits the connection and leaves st.used for later.
CallbackCommit_CredentialOnly(p) ==
    /\ cb[p].pc = "commit"
    /\ slack_connections' = Upsert(slack_connections, cb[p].existing,
                                   oauth_states[cb[p].st_id].user_id, cb[p].resp, now)
    /\ cb' = Finish(p, HTTP_OK, "Slack connected successfully")
    /\ UNCHANGED <<oauth_states, now, token_posts, mcp_vars>>

\* Lines 173-199: the upsert and st.used = True, written by the one db.commit().
CallbackCommit(p) ==
    /\ cb[p].pc = "commit"
    /\ slack_connections' = Upsert(slack_connections, cb[p].existing,
                                   oauth_states[cb[p].st_id].user_id, cb[p].resp, now)
    /\ oauth_states' = MarkUsed(oauth_states, cb[p].st_id)
    /\ cb' = Finish(p, HTTP_OK, "Slack connected successfully")
    /\ UNCHANGED <<now, token_posts, mcp_vars>>

\* The state values a callback request can carry: none, a made-up one, an issued one.
CallbackStates == {"", "state-forged"} \cup { oauth_states[i].state : i \in DOMAIN oauth_states }
CallbackCodes == {"", "code-good", "code-bad"}
CallbackErrors == {"", "access_denied"}

\* The provider is asked only by a request that passed every check before the
\* exchange; any other request gets no answer.
Answers(p, state, code, error) ==
    IF ArriveOutcome(oauth_states, now, state, code, error, NoResp).posted
    THEN ProviderResponses(p, code)
    ELSE {NoResp}

Callback ==
    \E p \in CbIds :
        \/ /\ cb[p].pc = "idle"
           /\ \E state \in CallbackStates, code \in CallbackCodes, error \in CallbackErrors :
                 \E resp \in Answers(p, state, code, error) :
                     CallbackArrive(p, state, code, error, resp)
        \/ CallbackDenied(p)
        \/ CallbackQueryExisting(p)
        \/ CallbackCommit(p)

\* datetime.utcnow() advances: to the instants at which a state can expire
\* (multiples of the expiry window) and to one minute past them.
Tick ==
    /\ \E d \in {STATE_TTL_MINUTES, 1} :
          /\ d = 1 => (now > 0 /\ now % STATE_TTL_MINUTES = 0)
          /\ now + d <= MaxTime
          /\ now' = now + d
    /\ UNCHANGED <<oauth_states, slack_connections, cb, token_posts, mcp_vars>>

(* ======================================================================= *)
(*                      The JSON-RPC protocol engine                       *)
(* ======================================================================= *)
JSONRPC_SERVER_ERROR == -32000
JSONRPC_UNAUTHORIZED == -32001
JSONRPC_METHOD_NOT_FOUND == -32601
JSONRPC_PARSE_ERROR == -32700
WS_POLICY_VIOLATION == 1008
\* Defaults and the cap of the limit argument.
LIST_CHANNELS_LIMIT == 20
FETCH_HISTORY_LIMIT == 10
SLACK_MAX_LIMIT == 100

(* ------------------------------ messages ------------------------------- *)
\* A message is the dict read from the transport; an absent id is NoneId.
Methods ==
    {"initialize", "notifications/initialized", "initialized", "notifications/cancelled",
     "tools/list", "tools/call", "tools.list", "tools.call", "resources/list"}
ToolNames == {"list_channels", "send_message", "fetch_history", "delete_channel"}

\* The arguments dict; an absent key is "" for a string and NoneId for limit.
\* include_private is a JSON boolean, "true" or "false".
NoArguments == [channel_id |-> "", text |-> "", limit |-> NoneId, include_private |-> ""]
Limits == {5, 100, 500}
\* The arguments a call of the tool is tried with: those the tool reads.
ArgumentsOf(name) ==
    IF name = "send_message"
    THEN {NoArguments,
          [NoArguments EXCEPT !.channel_id = "C1"],
          [NoArguments EXCEPT !.text = "hello"],
          [NoArguments EXCEPT !.channel_id = "C1", !.text = "hello"]}
    ELSE IF name = "fetch_history"
    THEN {NoArguments, [NoArguments EXCEPT !.channel_id = "C1"]}
            \cup { [NoArguments EXCEPT !.channel_id = "C1", !.limit = l] : l \in Limits }
    ELSE IF name = "list_channels"
    THEN {NoArguments,
          [NoArguments EXCEPT !.include_private = "false"],
          [NoArguments EXCEPT !.include_private = "true"],
          [NoArguments EXCEPT !.limit = 5, !.include_private = "true"]}
            \cup { [NoArguments EXCEPT !.limit = l] : l \in Limits }
    ELSE {NoArguments}
ToolArguments == UNION { ArgumentsOf(n) : n \in ToolNames }
NoParams == [name |-> "", arguments |-> NoArguments]
ParamsOf(method) ==
    IF method \in {"tools/call", "tools.call"}
    THEN UNION { { [name |-> n, arguments |-> a] : a \in ArgumentsOf(n) } : n \in ToolNames }
    ELSE {NoParams}
Ids == {NoneId, 7}
Messages ==
    UNION { { [id |-> i, method |-> m, params |-> p] : i \in Ids, p \in ParamsOf(m) }
            : m \in Methods }
NoMessage == [id |-> NoneId, method |-> "", params |-> NoParams]

(* ------------------------------- frames -------------------------------- *)
\* A text is the sequence of the literal and interpolated parts of an f-string.
\* A result without an "isError" key has isError FALSE.
NoResult == [shape |-> "", server |-> "", tools |-> {}, text |-> <<>>, isError |-> FALSE]
InitializeResult(server) == [NoResult EXCEPT !.shape = "initialize", !.server = server]
ToolsResult(tools) == [NoResult EXCEPT !.shape = "tools", !.tools = tools]
ContentResult(text, isError) ==
    [NoResult EXCEPT !.shape = "content", !.text = text, !.isError = isError]
RawResult(shape) == [NoResult EXCEPT !.shape = shape]

ResultFrame(id, result) ==
    [id |-> id, error |-> FALSE, code |-> 0, message |-> <<>>, result |-> result]
ErrorFrame(id, code, message) ==
    [id |-> id, error |-> TRUE, code |-> code, message |-> message, result |-> NoResult]

\* What handling one message produced: the frames sent, the Slack Web API
\* endpoints requested, and whether an exception left the handler.
Handled(frames, api_calls, raised) ==
    [frames |-> frames, api_calls |-> api_calls, raised |-> raised]
Reply(frame) == Handled(<<frame>>, <<>>, FALSE)

(* --------------------------- app/slack/client.py ----------------------- *)
\* The request SlackClient._request sends: the endpoint and the data.
NoData == [channel |-> "", text |-> "", limit |-> NoneId, types |-> ""]
\* SlackClient(bot_access_token): the client is known by the token it sends as
\* Authorization: Bearer.
SlackClient(bot_access_token) == bot_access_token
SlackRequest(client, endpoint, data) ==
    [authorization |-> client, endpoint |-> endpoint, data |-> data]
Min(a, b) == IF a <= b THEN a ELSE b
\* dict.get(key, default)
Get(value, default) == IF value = NoneId THEN default ELSE value
\* dict.get(key, default) of a boolean argument
GetFlag(value, default) == IF value = "" THEN default ELSE value = "true"
\* ",".join(types)
Join(types) ==
    IF Len(types) = 1 THEN types[1] ELSE types[1] \o "," \o types[2]

send_message(client, channel_id, text) ==
    SlackRequest(client, "chat.postMessage", [NoData EXCEPT !.channel = channel_id, !.text = text])
\* list_channels that asks for private channels whatever the flag.
list_channels_AlwaysPrivate(client, limit, include_private) ==
    SlackRequest(client, "conversations.list",
                 [NoData EXCEPT !.limit = limit,
                                !.types = Join(<<"public_channel", "private_channel">>)])

\* Lines 81-105.
list_channels(client, limit, include_private) ==
    LET types == IF include_private THEN <<"public_channel", "private_channel">>
                 ELSE <<"public_channel">>
    IN  SlackRequest(client, "conversations.list",
                     [NoData EXCEPT !.limit = limit, !.types = Join(types)])
fetch_history(client, channel_id, limit) ==
    SlackRequest(client, "conversations.history",
                 [NoData EXCEPT !.channel = channel_id, !.limit = Min(limit, SLACK_MAX_LIMIT)])

(* --------------------------- the credential ---------------------------- *)
\* The query without the filter on user_id.
LatestActive_AnyOwner(conns, user_id) ==
    LET active == { i \in DOMAIN conns : conns[i].status = "active" }
    IN  IF active = {} THEN {0}
        ELSE { i \in active : \A j \in active : conns[j].installed_at <= conns[i].installed_at }

\* filter(user_id, status == "active").order_by(installed_at.desc()).first():
\* the rows the query can return, {0} for None.  Rows with equal installed_at
\* come in an order the database chooses.
LatestActive(conns, user_id) ==
    LET active == { i \in DOMAIN conns :
                      conns[i].user_id = user_id /\ conns[i].status = "active" }
    IN  IF active = {} THEN {0}
        ELSE { i \in active : \A j \in active : conns[j].installed_at <= conns[i].installed_at }

\* conn and conn.bot_access_token
Connected(conns, conn) == conn # 0 /\ conns[conn].bot_access_token # ""

\* SlackClient._request returns the body, or raises (ok == false, transport failure).
SlackOutcomes == {"ok", "error"}
\* Without a client nothing is requested from Slack.
SlackOutcomesWith(conns, conn) == IF Connected(conns, conn) THEN SlackOutcomes ELSE {"ok"}

(* ------------------------ WebSocket /mcp/slack ------------------------- *)
\* The catalog without its second entry.
TOOLS_WithoutSendMessage == {"list_channels"}

\* Lines 20-61.
TOOLS == {"list_channels", "send_message"}

connect_url_for_user(session_token) ==
    "https://slack-mcp-server-6809.onrender.com/oauth/slack/start?session_token="
        \o session_token

\* Lines 132-290.
ws_tools_call(msg_id, params, session_token, conns, conn, slack) ==
    LET tool_name == params.name
        args == params.arguments
        client == SlackClient(conns[conn].bot_access_token)
        Content(text, isError) == ResultFrame(msg_id, ContentResult(text, isError))
    IN  IF ~Connected(conns, conn)
        THEN Reply(Content(<<"Slack not connected. Please connect Slack first: ",
                             connect_url_for_user(session_token)>>, TRUE))
        ELSE IF tool_name = "list_channels"
        THEN Handled(<<IF slack = "ok"
                       THEN Content(<<"Found ", "channels">>, FALSE)
                       ELSE Content(<<"Error listing channels: ", slack>>, TRUE)>>,
                     <<list_channels(client, Get(args.limit, LIST_CHANNELS_LIMIT),
                                     GetFlag(args.include_private, FALSE))>>, FALSE)
        ELSE IF tool_name = "send_message"
        THEN IF args.channel_id = "" \/ args.text = ""
             THEN Reply(Content(<<"Error: Missing required fields 'channel_id' and 'text'">>,
                                TRUE))
             ELSE Handled(<<IF slack = "ok"
                            THEN Content(<<"Message sent successfully to channel ",
                                           args.channel_id>>, FALSE)
                            ELSE Content(<<"Error sending message: ", slack>>, TRUE)>>,
                          <<send_message(client, args.channel_id, args.text)>>, FALSE)
        ELSE Reply(Content(<<"Unknown tool: ", tool_name>>, TRUE))

\* Lines 308-382: no except clause around the client's calls.
ws_legacy_tools_call(msg_id, params, conns, conn, slack) ==
    LET tool_name == params.name
        args == params.arguments
        client == SlackClient(conns[conn].bot_access_token)
        listing == list_channels(client, Get(args.limit, LIST_CHANNELS_LIMIT),
                                     GetFlag(args.include_private, FALSE))
        posting == send_message(client, args.channel_id, args.text)
    IN
    IF ~Connected(conns, conn)
    THEN Reply(ErrorFrame(msg_id, JSONRPC_SERVER_ERROR, <<"Slack not connected.">>))
    ELSE IF tool_name = "list_channels"
    THEN IF slack = "ok"
         THEN Handled(<<ResultFrame(msg_id, RawResult("channels"))>>, <<listing>>, FALSE)
         ELSE Handled(<<>>, <<listing>>, TRUE)
    ELSE IF tool_name = "send_message"
    THEN IF slack = "ok"
         THEN Handled(<<ResultFrame(msg_id, RawResult("sent"))>>, <<posting>>, FALSE)
         ELSE Handled(<<>>, <<posting>>, TRUE)
    ELSE Handled(<<>>, <<>>, FALSE)

\* The loop whose last branch raises instead of answering.
slack_mcp_websocket_UnknownMethodRaises(message, session_token, conns, conn, slack) ==
    LET msg_id == message.id
        method == message.method
        params == message.params
    IN  IF method = "initialize"
        THEN Reply(ResultFrame(msg_id, InitializeResult("slack-mcp")))
        ELSE IF method = "notifications/initialized" \/ method = "initialized"
        THEN Handled(<<>>, <<>>, FALSE)
        ELSE IF method = "tools/list"
        THEN Reply(ResultFrame(msg_id, ToolsResult(TOOLS)))
        ELSE IF method = "tools/call"
        THEN ws_tools_call(msg_id, params, session_token, conns, conn, slack)
        ELSE IF method = "tools.list"
        THEN Reply(ResultFrame(msg_id, ToolsResult(TOOLS)))
        ELSE IF method = "tools.call"
        THEN ws_legacy_tools_call(msg_id, params, conns, conn, slack)
        ELSE Handled(<<>>, <<>>, TRUE)

\* The loop that asks for the credential before it answers initialize.
slack_mcp_websocket_InitializeNeedsLink(message, session_token, conns, conn, slack) ==
    LET msg_id == message.id
        method == message.method
        params == message.params
    IN  IF method = "initialize"
        THEN IF Connected(conns, conn)
             THEN Reply(ResultFrame(msg_id, InitializeResult("slack-mcp")))
             ELSE Reply(ErrorFrame(msg_id, JSONRPC_SERVER_ERROR, <<"Slack not connected.">>))
        ELSE IF method = "notifications/initialized" \/ method = "initialized"
        THEN Handled(<<>>, <<>>, FALSE)
        ELSE IF method = "tools/list"
        THEN Reply(ResultFrame(msg_id, ToolsResult(TOOLS)))
        ELSE IF method = "tools/call"
        THEN ws_tools_call(msg_id, params, session_token, conns, conn, slack)
        ELSE IF method = "tools.list"
        THEN Reply(ResultFrame(msg_id, ToolsResult(TOOLS)))
        ELSE IF method = "tools.call"
        THEN ws_legacy_tools_call(msg_id, params, conns, conn, slack)
        ELSE Reply(ErrorFrame(msg_id, JSONRPC_METHOD_NOT_FOUND,
                              <<"Unknown method: ", method>>))

\* Lines 82-394: one turn of the receive loop.
slack_mcp_websocket(message, session_token, conns, conn, slack) ==
    LET msg_id == message.id
        method == message.method
        params == message.params
    IN  IF method = "initialize"
        THEN Reply(ResultFrame(msg_id, InitializeResult("slack-mcp")))
        ELSE IF method = "notifications/initialized" \/ method = "initialized"
        THEN Handled(<<>>, <<>>, FALSE)
        ELSE IF method = "tools/list"
        THEN Reply(ResultFrame(msg_id, ToolsResult(TOOLS)))
        ELSE IF method = "tools/call"
        THEN ws_tools_call(msg_id, params, session_token, conns, conn, slack)
        ELSE IF method = "tools.list"
        THEN Reply(ResultFrame(msg_id, ToolsResult(TOOLS)))
        ELSE IF method = "tools.call"
        THEN ws_legacy_tools_call(msg_id, params, conns, conn, slack)
        ELSE Reply(ErrorFrame(msg_id, JSONRPC_METHOD_NOT_FOUND,
                              <<"Unknown method: ", method>>))

(* ----------------------------- POST /mcp/http -------------------------- *)
\* A catalog that lists a tool call_tool() has no branch for.
list_tools_WithDeleteChannel ==
    {"list_channels", "send_message", "fetch_history", "delete_channel"}

\* server.py list_tools(): the names of the catalog.
list_tools == {"list_channels", "send_message", "fetch_history"}

\* call_tool() that sends the requested limit of fetch_history as it is.
call_tool_NoLimitCap(name, arguments, user_id, conns, conn, slack) ==
    LET client == SlackClient(conns[conn].bot_access_token)
        Text(text) == [text |-> text, api_calls |-> <<>>]
        Called(request, text) ==
            [text |-> IF slack = "ok" THEN text ELSE <<"Error executing ", name, ": ", slack>>,
             api_calls |-> <<request>>]
    IN  IF ~Truthy(user_id)
        THEN Text(<<"Error: No user context available. Please reconnect.">>)
        ELSE IF ~Connected(conns, conn)
        THEN Text(<<"Slack not connected. Please connect your Slack workspace first.">>)
        ELSE IF name = "list_channels"
        THEN Called(list_channels(client, Get(arguments.limit, LIST_CHANNELS_LIMIT),
                                  GetFlag(arguments.include_private, FALSE)),
                    <<"Found ", "channels">>)
        ELSE IF name = "send_message"
        THEN IF arguments.channel_id = "" \/ arguments.text = ""
             THEN Text(<<"Error: channel_id and text are required">>)
             ELSE Called(send_message(client, arguments.channel_id, arguments.text),
                         <<"Message sent successfully to channel ", arguments.channel_id>>)
        ELSE IF name = "fetch_history"
        THEN IF arguments.channel_id = ""
             THEN Text(<<"Error: channel_id is required">>)
             ELSE Called(SlackRequest(client, "conversations.history",
                                      [NoData EXCEPT !.channel = arguments.channel_id,
                                                     !.limit = Get(arguments.limit,
                                                                   FETCH_HISTORY_LIMIT)]),
                         <<"Last messages from ", arguments.channel_id>>)
        ELSE Text(<<"Unknown tool: ", name>>)

\* server.py call_tool() and its handlers: the text returned and the endpoints requested.
call_tool(name, arguments, user_id, conns, conn, slack) ==
    LET client == SlackClient(conns[conn].bot_access_token)
        Text(text) == [text |-> text, api_calls |-> <<>>]
        Called(request, text) ==
            [text |-> IF slack = "ok" THEN text ELSE <<"Error executing ", name, ": ", slack>>,
             api_calls |-> <<request>>]
    IN  IF ~Truthy(user_id)
        THEN Text(<<"Error: No user context available. Please reconnect.">>)
        ELSE IF ~Connected(conns, conn)
        THEN Text(<<"Slack not connected. Please connect your Slack workspace first.">>)
        ELSE IF name = "list_channels"
        THEN Called(list_channels(client, Get(arguments.limit, LIST_CHANNELS_LIMIT),
                                  GetFlag(arguments.include_private, FALSE)),
                    <<"Found ", "channels">>)
        ELSE IF name = "send_message"
        THEN IF arguments.channel_id = "" \/ arguments.text = ""
             THEN Text(<<"Error: channel_id and text are required">>)
             ELSE Called(send_message(client, arguments.channel_id, arguments.text),
                         <<"Message sent successfully to channel ", arguments.channel_id>>)
        ELSE IF name = "fetch_history"
        THEN IF arguments.channel_id = ""
             THEN Text(<<"Error: channel_id is required">>)
             ELSE Called(fetch_history(client, arguments.channel_id,
                                       Min(Get(arguments.limit, FETCH_HISTORY_LIMIT),
                                           SLACK_MAX_LIMIT)),
                         <<"Last messages from ", arguments.channel_id>>)
        ELSE Text(<<"Unknown tool: ", name>>)

\* The request body: JSON text of a message, or text that request.json() rejects.
Bodies == { [kind |-> "json", message |-> m] : m \in Messages }
              \cup { [kind |-> "malformed", message |-> NoMessage] }

HttpResponse(status, frame, api_calls) ==
    [status |-> status, frames |-> <<frame>>, api_calls |-> api_calls, raised |-> FALSE]

\* The endpoint without the tests of lines 75-94.
mcp_http_endpoint_NoTokenCheck(session_token, body, conns, conn, slack) ==
    LET user_id == get_user_id_from_session_token(session_token)
        msg_id == body.message.id
        method == body.message.method
        params == body.message.params
        result == call_tool(params.name, params.arguments, user_id, conns, conn, slack)
    IN  IF body.kind # "json"
        THEN HttpResponse(HTTP_OK,
                          ErrorFrame(NoneId, JSONRPC_PARSE_ERROR, <<"Parse error: ">>), <<>>)
        ELSE IF method = "initialize"
        THEN HttpResponse(HTTP_OK,
                          ResultFrame(msg_id, InitializeResult("slack-mcp-server")), <<>>)
        ELSE IF method = "tools/list"
        THEN HttpResponse(HTTP_OK, ResultFrame(msg_id, ToolsResult(list_tools)), <<>>)
        ELSE IF method = "tools/call"
        THEN HttpResponse(HTTP_OK, ResultFrame(msg_id, ContentResult(result.text, FALSE)),
                          result.api_calls)
        ELSE HttpResponse(HTTP_OK,
                          ErrorFrame(msg_id, JSONRPC_METHOD_NOT_FOUND,
                                     <<"Method not found: ", method>>), <<>>)

\* main.py lines 67-168.
mcp_http_endpoint(session_token, body, conns, conn, slack) ==
    LET user_id == get_user_id_from_session_token(session_token)
        msg_id == body.message.id
        method == body.message.method
        params == body.message.params
        result == call_tool(params.name, params.arguments, user_id, conns, conn, slack)
    IN  IF session_token = ""
        THEN HttpResponse(HTTP_UNAUTHORIZED,
                          ErrorFrame(NoneId, JSONRPC_UNAUTHORIZED,
                                     <<"session_token is required">>), <<>>)
        ELSE IF ~Truthy(user_id)
        THEN HttpResponse(HTTP_UNAUTHORIZED,
                          ErrorFrame(NoneId, JSONRPC_UNAUTHORIZED,
                                     <<"Invalid or expired session token">>), <<>>)
        ELSE IF body.kind # "json"
        THEN HttpResponse(HTTP_OK,
                          ErrorFrame(NoneId, JSONRPC_PARSE_ERROR, <<"Parse error: ">>), <<>>)
        ELSE IF method = "initialize"
        THEN HttpResponse(HTTP_OK,
                          ResultFrame(msg_id, InitializeResult("slack-mcp-server")), <<>>)
        ELSE IF method = "tools/list"
        THEN HttpResponse(HTTP_OK, ResultFrame(msg_id, ToolsResult(list_tools)), <<>>)
        ELSE IF method = "tools/call"
        THEN HttpResponse(HTTP_OK, ResultFrame(msg_id, ContentResult(result.text, FALSE)),
                          result.api_calls)
        ELSE HttpResponse(HTTP_OK,
                          ErrorFrame(msg_id, JSONRPC_METHOD_NOT_FOUND,
                                     <<"Method not found: ", method>>), <<>>)

(* ------------------------------- GET /mcp/sse -------------------------- *)
\* The requests the handlers registered with the SDK's server serve.
SseRequests == { m \in Messages : m.id # NoneId /\ m.method \in {"tools/list", "tools/call"} }

\* main.py lines 49-56: mcp_server.run() hands a request of the stream to
\* list_tools() or to call_tool(), which reads the user of the stream's context.
mcp_server_run(message, current_user_id, conns, conn, slack) ==
    LET result == call_tool(message.params.name, message.params.arguments,
                            current_user_id, conns, conn, slack)
    IN  IF message.method = "tools/list"
        THEN Reply(ResultFrame(message.id, ToolsResult(list_tools)))
        ELSE Handled(<<ResultFrame(message.id, ContentResult(result.text, FALSE))>>,
                     result.api_calls, FALSE)

(* ------------------------------ mcp_bridge.py -------------------------- *)
\* A line read from stdin: end of input, whitespace only, text that is not
\* JSON, or the JSON text of a message.
Lines == { [kind |-> k, message |-> NoMessage] : k \in {"eof", "blank", "malformed"} }
             \cup { [kind |-> "json", message |-> m] : m \in Messages }

\* Whether the POST reaches the server, finds no such route (404), or fails
\* to connect.
Networks == {"reached", "not_found", "unreachable"}

\* str.startswith of line 171.
startswith(s, prefix) == Len(s) >= Len(prefix) /\ SubSeq(s, 1, Len(prefix)) = prefix

\* make_error that answers every failure with id 0.
make_error_IdZero(msg_id, code, message) == ErrorFrame(0, code, message)

\* Lines 53-68: msg_id if msg_id is not None else 0.
make_response(msg_id, result) == ResultFrame(IF msg_id = NoneId THEN 0 ELSE msg_id, result)
make_error(msg_id, code, message) ==
    ErrorFrame(IF msg_id = NoneId THEN 0 ELSE msg_id, code, message)

\* Lines 79-114: the dict returned for the request, and the endpoints the server requested.
send_request(request, token, conns, conn, slack, network) ==
    LET msg_id == IF request.id = NoneId THEN 0 ELSE request.id      \* request.get("id", 0)
        response == mcp_http_endpoint(token, [kind |-> "json", message |-> request],
                                      conns, conn, slack)
        result == response.frames[1]
    IN  IF network = "unreachable"
        THEN [frame |-> make_error(msg_id, JSONRPC_SERVER_ERROR,
                                   <<"Cannot connect to MCP server">>),
              api_calls |-> <<>>]
        ELSE IF network = "not_found"
        THEN [frame |-> make_error(msg_id, JSONRPC_SERVER_ERROR,
                                   <<"MCP endpoint not found. Server may not be deployed yet.">>),
              api_calls |-> <<>>]
        ELSE IF response.status # HTTP_OK
        THEN [frame |-> make_error(msg_id, JSONRPC_SERVER_ERROR,
                                   <<"HTTP Error: ", ToString(response.status)>>),
              api_calls |-> response.api_calls]
        ELSE [frame |-> IF result.id = NoneId THEN [result EXCEPT !.id = msg_id] ELSE result,
              api_calls |-> response.api_calls]

\* Lines 147-192: one turn of the main loop; raised stands for leaving the loop.
bridge_main(line, token, conns, conn, slack, network) ==
    LET request == line.message
        method == request.method
        msg_id == IF request.id = NoneId THEN 0 ELSE request.id      \* request.get("id", 0)
        sent == send_request(request, token, conns, conn, slack, network)
    IN  IF line.kind \in {"eof", "blank"}       \* readline().strip() == ""
        THEN Handled(<<>>, <<>>, TRUE)
        ELSE IF line.kind = "malformed"
        THEN Handled(<<>>, <<>>, FALSE)
        ELSE IF startswith(method, "notifications/") \/ method = "initialized"
        THEN Handled(<<>>, <<>>, FALSE)
        ELSE IF method = "initialize"
        THEN Reply(make_response(msg_id, InitializeResult("slack-mcp-bridge")))
        ELSE Handled(<<sent.frame>>, sent.api_calls, FALSE)

(* ------------------------------ the exchange --------------------------- *)
Exchange(binding, session_token, line, message, status, out) ==
    [binding |-> binding, session_token |-> session_token, line |-> line,
     message |-> message, status |-> status,
     frames |-> out.frames, api_calls |-> out.api_calls, raised |-> out.raised]

IdleExchange == Exchange("none", "", "", NoMessage, 0, Handled(<<>>, <<>>, FALSE))
NewWebSocket == [state |-> "new", session_token |-> "", close_code |-> 0]
NoConnections == [w \in {} |-> NoneId]
NewBridge == [state |-> "new", SESSION_TOKEN |-> ""]
NewSse == [state |-> "new", session_token |-> "", current_user_id |-> NoneId]

\* Two sockets of /mcp/slack.  pc is the place of the socket's coroutine in the
\* loop of lines 80-394: at receive_json(), at the handling of the message in
\* hand, at send_json().  inbox holds what the client wrote and the loop has
\* not read, outbox the ids of the frames sent, received the ids read.
Sockets == {1, 2}
NewSession ==
    [state |-> "new", session_token |-> "", close_code |-> 0, pc |-> "receive",
     message |-> NoMessage, out |-> Handled(<<>>, <<>>, FALSE),
     inbox |-> <<>>, written |-> 0, received |-> <<>>, finished |-> 0, outbox |-> <<>>]

\* The asyncio tasks that serve connections side by side.  Every task has its
\* own context: current_user_id is the value of the ContextVar _current_user_id
\* in it (server.py:18-21, default None), user_id the local variable of the
\* WebSocket handler.  lookup is the user the last credential query was made
\* for, api_calls the Slack requests of the last tools/call.
TaskIds == 1..NumTasks
NewTask ==
    [binding |-> "none", pc |-> "idle", session_token |-> "", user_id |-> NoneId,
     current_user_id |-> NoneId, lookup |-> NoneId, api_calls |-> <<>>]

Init ==
    /\ oauth_states = <<>>
    /\ slack_connections = InitialConnections
    /\ now = 0
    /\ cb = [p \in CbIds |-> IdleCallback]
    /\ token_posts = {}
    /\ websocket = NewWebSocket
    /\ active_connections = NoConnections
    /\ bridge = NewBridge
    /\ sse_transport = NewSse
    /\ sessions = [w \in Sockets |-> NewSession]
    /\ tasks = [k \in TaskIds |-> NewTask]
    /\ exchange = IdleExchange

Next == Start \/ Callback \/ Tick

Spec == Init /\ [][Next]_vars

(* ----------------------- the protocol engine at work ------------------- *)
\* The handlers of the three bindings run one message at a time, only read the
\* tables and share nothing else, so a behaviour exercises one binding.
WsUnused == websocket.state = "new"
SseUnused == sse_transport.state = "new"
BridgeUnused == bridge.state = "new"
HttpUnused == exchange.binding # "http"

\* The handshake without the test of line 72: every socket is accepted.
WsConnect_AcceptsAnyToken ==
    /\ websocket.state = "new"
    /\ BridgeUnused /\ HttpUnused /\ SseUnused
    /\ \E session_token \in SessionTokens :
          /\ websocket' = [state |-> "open", session_token |-> session_token,
                           close_code |-> 0]
          /\ active_connections' =
                 [w \in {1} |-> get_user_id_from_session_token(session_token)]
    /\ UNCHANGED <<link_vars, slack_connections, tasks, sessions, sse_transport, bridge, exchange>>

\* Lines 69-78: the handshake of the WebSocket endpoint.
WsConnect ==
    /\ websocket.state = "new"
    /\ BridgeUnused /\ HttpUnused /\ SseUnused
    /\ \E session_token \in SessionTokens :
          LET user_id == get_user_id_from_session_token(session_token) IN
          IF user_id = NoneId
          THEN /\ websocket' = [state |-> "closed", session_token |-> session_token,
                                close_code |-> WS_POLICY_VIOLATION]
               /\ UNCHANGED active_connections
          ELSE /\ websocket' = [state |-> "open", session_token |-> session_token,
                                close_code |-> 0]
               /\ active_connections' = [w \in {1} |-> user_id]
    /\ UNCHANGED <<link_vars, slack_connections, tasks, sessions, sse_transport, bridge, exchange>>

\* Lines 82-400: a message is received and handled; an exception that is not
\* caught ends the loop, and the finally clause drops the connection.
WsReceive ==
    /\ websocket.state = "open"
    /\ \E message \in Messages :
       \E conn \in LatestActive(slack_connections, active_connections[1]) :
       \E slack \in SlackOutcomesWith(slack_connections, conn) :
          LET out == slack_mcp_websocket(message, websocket.session_token,
                                         slack_connections, conn, slack)
          IN  /\ exchange' = Exchange("websocket", websocket.session_token, "json",
                                      message, 0, out)
              /\ websocket' = IF out.raised THEN [websocket EXCEPT !.state = "closed"]
                              ELSE websocket
              /\ active_connections' = IF out.raised THEN NoConnections
                                       ELSE active_connections
    /\ UNCHANGED <<link_vars, slack_connections, tasks, sessions, sse_transport, bridge>>

\* Lines 396-400: WebSocketDisconnect.
WsDisconnect ==
    /\ websocket.state = "open"
    /\ websocket' = [websocket EXCEPT !.state = "closed"]
    /\ active_connections' = NoConnections
    /\ UNCHANGED <<link_vars, slack_connections, tasks, sessions, sse_transport, bridge, exchange>>

\* One request to POST /mcp/http.
HttpPost ==
    /\ WsUnused /\ BridgeUnused /\ SseUnused
    /\ \E session_token \in SessionTokens, body \in Bodies :
       \E conn \in LatestActive(slack_connections,
                                get_user_id_from_session_token(session_token)) :
       \E slack \in SlackOutcomesWith(slack_connections, conn) :
          LET out == mcp_http_endpoint(session_token, body, slack_connections, conn, slack)
          IN  exchange' = Exchange("http", session_token, body.kind, body.message,
                                   out.status, out)
    /\ UNCHANGED <<link_vars, slack_connections, tasks, sessions, sse_transport, websocket, active_connections, bridge>>

\* main.py lines 32-47: GET /mcp/sse raises HTTPException(401) for a missing or
\* invalid token; otherwise the user is set and the stream is opened.
SseConnect ==
    /\ sse_transport.state = "new"
    /\ WsUnused /\ BridgeUnused /\ HttpUnused
    /\ \E session_token \in SessionTokens :
          LET user_id == get_user_id_from_session_token(session_token) IN
          IF session_token = "" \/ ~Truthy(user_id)
          THEN /\ sse_transport' = [state |-> "rejected", session_token |-> session_token,
                                    current_user_id |-> NoneId]
               /\ exchange' = Exchange("sse", session_token, "connect", NoMessage,
                                       HTTP_UNAUTHORIZED, Handled(<<>>, <<>>, TRUE))
          ELSE /\ sse_transport' = [state |-> "streaming", session_token |-> session_token,
                                    current_user_id |-> user_id]
               /\ exchange' = Exchange("sse", session_token, "connect", NoMessage,
                                       HTTP_OK, Handled(<<>>, <<>>, FALSE))
    /\ UNCHANGED <<link_vars, slack_connections, tasks, sessions, websocket, active_connections, bridge>>

\* main.py lines 49-64: a request posted to /mcp/messages reaches the server
\* that runs on the open stream.
SseMessage ==
    /\ sse_transport.state = "streaming"
    /\ \E message \in SseRequests :
       \E conn \in LatestActive(slack_connections, sse_transport.current_user_id) :
       \E slack \in SlackOutcomesWith(slack_connections, conn) :
          LET out == mcp_server_run(message, sse_transport.current_user_id,
                                    slack_connections, conn, slack)
          IN  exchange' = Exchange("sse", sse_transport.session_token, "json", message,
                                   0, out)
    /\ UNCHANGED <<link_vars, slack_connections, tasks, sessions, sse_transport, websocket,
                   active_connections, bridge>>

\* mcp_bridge.py lines 135-144: without SESSION_TOKEN the bridge prints an error and exits.
BridgeStart ==
    /\ bridge.state = "new"
    /\ WsUnused /\ HttpUnused /\ SseUnused
    /\ \E token \in SessionTokens :       \* os.getenv("SLACK_MCP_TOKEN", "")
          IF token = ""
          THEN /\ bridge' = [state |-> "exited", SESSION_TOKEN |-> token]
               /\ exchange' = Exchange("bridge", "", "start", NoMessage, 0,
                       Reply(make_error(0, JSONRPC_SERVER_ERROR,
                                        <<"SLACK_MCP_TOKEN not set.">>)))
          ELSE /\ bridge' = [state |-> "running", SESSION_TOKEN |-> token]
               /\ UNCHANGED exchange
    /\ UNCHANGED <<link_vars, slack_connections, tasks, sessions, sse_transport, websocket, active_connections>>

\* mcp_bridge.py lines 147-202: a line is read and served.
BridgeLine ==
    /\ bridge.state = "running"
    /\ \E line \in Lines, network \in Networks :
       \E conn \in LatestActive(slack_connections,
                                get_user_id_from_session_token(bridge.SESSION_TOKEN)) :
       \E slack \in SlackOutcomesWith(slack_connections, conn) :
          LET out == bridge_main(line, bridge.SESSION_TOKEN, slack_connections, conn,
                                 slack, network)
          IN  /\ exchange' = Exchange("bridge", bridge.SESSION_TOKEN, line.kind,
                                      line.message, 0, out)
              /\ bridge' = IF out.raised THEN [bridge EXCEPT !.state = "stopped"] ELSE bridge
    /\ UNCHANGED <<link_vars, slack_connections, tasks, sessions, sse_transport, websocket, active_connections>>

\* The tables the engine can find: no row, a revoked link, a row without a
\* token (the column is nullable), a link, two links of one user, a link
\* next to a later one that was revoked, and links of two users.
CredentialStores ==
    { <<>>,
      << OldRow("xoxb-old", "revoked") >>,
      << OldRow("", "active") >>,
      << OldRow("xoxb-old", "active") >>,
      << OldRow("xoxb-old", "active"),
         SlackConnectionRow(1, "T2", "name-T2", "xoxb-1", GrantedScope, AuthedUser,
                            "active", STATE_TTL_MINUTES) >>,
      << OldRow("xoxb-old", "active"),
         SlackConnectionRow(1, "T2", "name-T2", "xoxb-1", GrantedScope, AuthedUser,
                            "revoked", STATE_TTL_MINUTES) >>,
      << OldRow("xoxb-old", "active"),
         SlackConnectionRow(2, "T1", "name-T1", "xoxb-2", GrantedScope, AuthedUser,
                            "active", STATE_TTL_MINUTES) >> }

InitMcp ==
    /\ oauth_states = <<>>
    /\ slack_connections \in CredentialStores
    /\ now = 0
    /\ cb = [p \in CbIds |-> IdleCallback]
    /\ token_posts = {}
    /\ websocket = NewWebSocket
    /\ active_connections = NoConnections
    /\ bridge = NewBridge
    /\ sse_transport = NewSse
    /\ sessions = [w \in Sockets |-> NewSession]
    /\ tasks = [k \in TaskIds |-> NewTask]
    /\ exchange = IdleExchange

NextMcp ==
    \/ WsConnect \/ WsReceive \/ WsDisconnect
    \/ HttpPost
    \/ SseConnect \/ SseMessage
    \/ BridgeStart \/ BridgeLine

SpecMcp == InitMcp /\ [][NextMcp]_vars

(* --------------------- sockets of /mcp/slack side by side -------------- *)
\* What a client writes on a socket: requests numbered in the order written.
LoopMethods == {"tools/list", "tools.call"}
LoopRequests(id) ==
    { [id |-> id, method |-> m,
       params |-> IF m = "tools.call"
                  THEN [name |-> "list_channels", arguments |-> NoArguments]
                  ELSE NoParams] : m \in LoopMethods }

\* dict.pop(websocket, None) and active_connections[websocket] = user_id
Pop(connections, w) == [x \in DOMAIN connections \ {w} |-> connections[x]]
Put(connections, w, user_id) ==
    [x \in DOMAIN connections \cup {w} |-> IF x = w THEN user_id ELSE connections[x]]

\* Lines 69-78: the handshake.
SessConnect(w) ==
    /\ sessions[w].state = "new"
    /\ \E session_token \in SessionTokens :
          LET user_id == get_user_id_from_session_token(session_token) IN
          IF user_id = NoneId
          THEN /\ sessions' = [sessions EXCEPT ![w].state = "closed",
                                                ![w].session_token = session_token,
                                                ![w].close_code = WS_POLICY_VIOLATION]
               /\ UNCHANGED active_connections
          ELSE /\ sessions' = [sessions EXCEPT ![w].state = "open",
                                                ![w].session_token = session_token]
               /\ active_connections' = Put(active_connections, w, user_id)
    /\ UNCHANGED <<link_vars, slack_connections, tasks, websocket, bridge, sse_transport, exchange>>

\* The client of an open socket writes its next request.
SessClientWrite(w) ==
    /\ sessions[w].state = "open"
    /\ sessions[w].written < MaxMessages
    /\ \E message \in LoopRequests(sessions[w].written + 1) :
          sessions' = [sessions EXCEPT ![w].inbox = Append(@, message),
                                       ![w].written = @ + 1]
    /\ UNCHANGED <<link_vars, slack_connections, tasks, websocket, active_connections, bridge,
                   sse_transport, exchange>>

\* A loop that reads the next message while one is still in hand.
SessReceive_WhileBusy(w) ==
    /\ sessions[w].state = "open"
    /\ sessions[w].inbox # <<>>
    /\ sessions' = [sessions EXCEPT ![w].message = Head(sessions[w].inbox),
                                    ![w].inbox = Tail(@),
                                    ![w].received = Append(@, Head(sessions[w].inbox).id),
                                    ![w].pc = "handle"]
    /\ UNCHANGED <<link_vars, slack_connections, tasks, websocket, active_connections, bridge,
                   sse_transport, exchange>>

\* Line 82: receive_json() returns the oldest message not yet read.
SessReceive(w) ==
    /\ sessions[w].state = "open"
    /\ sessions[w].pc = "receive"
    /\ sessions[w].inbox # <<>>
    /\ sessions' = [sessions EXCEPT ![w].message = Head(sessions[w].inbox),
                                    ![w].inbox = Tail(@),
                                    ![w].received = Append(@, Head(sessions[w].inbox).id),
                                    ![w].pc = "handle"]
    /\ UNCHANGED <<link_vars, slack_connections, tasks, websocket, active_connections, bridge,
                   sse_transport, exchange>>

\* Lines 85-394: the message in hand is dispatched, the query and the request
\* to Slack are made; an exception leaves the loop and runs the finally clause
\* of line 400.
SessHandle(w) ==
    /\ sessions[w].state = "open"
    /\ sessions[w].pc = "handle"
    /\ \E conn \in LatestActive(slack_connections, active_connections[w]) :
       \E slack \in SlackOutcomesWith(slack_connections, conn) :
          LET out == slack_mcp_websocket(sessions[w].message, sessions[w].session_token,
                                         slack_connections, conn, slack)
          IN  IF out.raised
              THEN /\ sessions' = [sessions EXCEPT ![w].out = out, ![w].state = "closed",
                                                    ![w].pc = "left"]
                   /\ active_connections' = Pop(active_connections, w)
              ELSE /\ sessions' = [sessions EXCEPT ![w].out = out, ![w].pc = "send"]
                   /\ UNCHANGED active_connections
    /\ UNCHANGED <<link_vars, slack_connections, tasks, websocket, bridge, sse_transport, exchange>>

\* send_json() of the frames of the message in hand, then continue.
SessSend(w) ==
    /\ sessions[w].state = "open"
    /\ sessions[w].pc = "send"
    /\ sessions' = [sessions EXCEPT
                       ![w].outbox = @ \o [i \in DOMAIN sessions[w].out.frames
                                              |-> sessions[w].out.frames[i].id],
                       ![w].finished = @ + 1,
                       ![w].pc = "receive"]
    /\ UNCHANGED <<link_vars, slack_connections, tasks, websocket, active_connections, bridge,
                   sse_transport, exchange>>

\* A disconnect that empties the map instead of dropping one entry.
SessDisconnect_DropsAll(w) ==
    /\ sessions[w].state = "open"
    /\ sessions[w].pc = "receive"
    /\ sessions' = [sessions EXCEPT ![w].state = "closed", ![w].pc = "left"]
    /\ active_connections' = NoConnections
    /\ UNCHANGED <<link_vars, slack_connections, tasks, websocket, bridge, sse_transport, exchange>>

\* Lines 396-400: receive_json() raises WebSocketDisconnect.
SessDisconnect(w) ==
    /\ sessions[w].state = "open"
    /\ sessions[w].pc = "receive"
    /\ sessions' = [sessions EXCEPT ![w].state = "closed", ![w].pc = "left"]
    /\ active_connections' = Pop(active_connections, w)
    /\ UNCHANGED <<link_vars, slack_connections, tasks, websocket, bridge, sse_transport, exchange>>

InitSessions ==
    /\ oauth_states = <<>>
    /\ slack_connections \in { << OldRow("xoxb-old", "active") >>, <<>> }
    /\ now = 0
    /\ cb = [p \in CbIds |-> IdleCallback]
    /\ token_posts = {}
    /\ websocket = NewWebSocket
    /\ active_connections = NoConnections
    /\ bridge = NewBridge
    /\ sse_transport = NewSse
    /\ sessions = [w \in Sockets |-> NewSession]
    /\ tasks = [k \in TaskIds |-> NewTask]
    /\ exchange = IdleExchange

NextSessions ==
    \E w \in Sockets :
        \/ SessConnect(w)
        \/ SessClientWrite(w)
        \/ SessReceive(w)
        \/ SessHandle(w)
        \/ SessSend(w)
        \/ SessDisconnect(w)

SpecSessions == InitSessions /\ [][NextSessions]_vars

(* ------------------- tasks of the endpoints side by side --------------- *)
\* _current_user_id.set() that writes one value seen by every task.
set_current_user_Global(ctx, k, user_id) ==
    [j \in DOMAIN ctx |-> [ctx[j] EXCEPT !.current_user_id = user_id]]

\* server.py lines 24-31: the ContextVar is written and read in the context of
\* the running task.
set_current_user(ctx, k, user_id) == [ctx EXCEPT ![k].current_user_id = user_id]
get_current_user(ctx, k) == ctx[k].current_user_id

\* The tools/call every task is tried with.
TaskCall ==
    [id |-> 7, method |-> "tools/call",
     params |-> [name |-> "list_channels", arguments |-> NoArguments]]

TaskFrame == UNCHANGED <<link_vars, slack_connections, websocket, active_connections,
                         bridge, sse_transport, sessions, exchange>>

\* websocket_server.py lines 69-78: the handler keeps the user in a local.
TaskWsConnect(k) ==
    /\ tasks[k].pc = "idle"
    /\ \E session_token \in SessionTokens :
          LET user_id == get_user_id_from_session_token(session_token) IN
          tasks' = [tasks EXCEPT ![k] =
                      [NewTask EXCEPT !.binding = "websocket",
                                      !.session_token = session_token,
                                      !.user_id = user_id,
                                      !.pc = IF user_id = NoneId THEN "done" ELSE "open"]]
    /\ TaskFrame

\* websocket_server.py lines 132-164: the query is made for the local user_id.
TaskWsCall(k) ==
    /\ tasks[k].binding = "websocket" /\ tasks[k].pc = "open"
    /\ \E conn \in LatestActive(slack_connections, tasks[k].user_id) :
          LET out == slack_mcp_websocket(TaskCall, tasks[k].session_token,
                                         slack_connections, conn, "ok")
          IN  tasks' = [tasks EXCEPT ![k].lookup = tasks[k].user_id,
                                     ![k].api_calls = out.api_calls]
    /\ TaskFrame

\* main.py lines 75-97: the request's task sets the user, then awaits the body.
TaskHttpBegin(k) ==
    /\ tasks[k].pc = "idle"
    /\ \E session_token \in SessionTokens :
          LET user_id == get_user_id_from_session_token(session_token)
              request == [tasks EXCEPT ![k] =
                             [NewTask EXCEPT !.binding = "http",
                                             !.session_token = session_token,
                                             !.pc = "body"]]
          IN  tasks' = IF session_token = "" \/ ~Truthy(user_id)
                       THEN [request EXCEPT ![k].pc = "done"]
                       ELSE set_current_user(request, k, user_id)
    /\ TaskFrame

\* main.py lines 99-163 with server.py lines 118-131: the body has arrived and
\* call_tool() reads the user of its task's context.
TaskHttpCall(k) ==
    /\ tasks[k].binding = "http" /\ tasks[k].pc = "body"
    /\ LET user_id == get_current_user(tasks, k) IN
       \E conn \in LatestActive(slack_connections, user_id) :
          LET out == call_tool(TaskCall.params.name, TaskCall.params.arguments, user_id,
                               slack_connections, conn, "ok")
          IN  tasks' = [tasks EXCEPT ![k].lookup = user_id,
                                     ![k].api_calls = out.api_calls,
                                     ![k].pc = "done"]
    /\ TaskFrame

\* main.py lines 32-56: the stream's task sets the user and runs the server.
TaskSseConnect(k) ==
    /\ tasks[k].pc = "idle"
    /\ \E session_token \in SessionTokens :
          LET user_id == get_user_id_from_session_token(session_token)
              request == [tasks EXCEPT ![k] =
                             [NewTask EXCEPT !.binding = "sse",
                                             !.session_token = session_token,
                                             !.pc = "streaming"]]
          IN  tasks' = IF session_token = "" \/ ~Truthy(user_id)
                       THEN [request EXCEPT ![k].pc = "done"]
                       ELSE set_current_user(request, k, user_id)
    /\ TaskFrame

\* A request of the stream: the server started by the stream's task handles it
\* in that task's context.
TaskSseCall(k) ==
    /\ tasks[k].binding = "sse" /\ tasks[k].pc = "streaming"
    /\ LET user_id == get_current_user(tasks, k) IN
       \E conn \in LatestActive(slack_connections, user_id) :
          LET out == call_tool(TaskCall.params.name, TaskCall.params.arguments, user_id,
                               slack_connections, conn, "ok")
          IN  tasks' = [tasks EXCEPT ![k].lookup = user_id,
                                     ![k].api_calls = out.api_calls]
    /\ TaskFrame

\* The connection is closed or the response sent: the task and its context end.
TaskEnd(k) ==
    /\ tasks[k].pc \in {"open", "streaming", "done"}
    /\ tasks' = [tasks EXCEPT ![k] = NewTask]
    /\ TaskFrame

\* Links of two users, and a link of user 1 only.
TaskStores ==
    { << OldRow("xoxb-old", "active"),
         SlackConnectionRow(2, "T1", "name-T1", "xoxb-2", GrantedScope, AuthedUser,
                            "active", STATE_TTL_MINUTES) >>,
      << OldRow("xoxb-old", "active") >> }

InitTasks ==
    /\ oauth_states = <<>>
    /\ slack_connections \in TaskStores
    /\ now = 0
    /\ cb = [p \in CbIds |-> IdleCallback]
    /\ token_posts = {}
    /\ websocket = NewWebSocket
    /\ active_connections = NoConnections
    /\ bridge = NewBridge
    /\ sse_transport = NewSse
    /\ sessions = [w \in Sockets |-> NewSession]
    /\ tasks = [k \in TaskIds |-> NewTask]
    /\ exchange = IdleExchange

NextTasks ==
    \E k \in TaskIds :
        \/ TaskWsConnect(k) \/ TaskWsCall(k)
        \/ TaskHttpBegin(k) \/ TaskHttpCall(k)
        \/ TaskSseConnect(k) \/ TaskSseCall(k)
        \/ TaskEnd(k)

SpecTasks == InitTasks /\ [][NextTasks]_vars

(* ======================================================================= *)
(*                     Properties of the OAuth link flow                   *)
(* ======================================================================= *)
Succeeded(p) == cb[p].pc = "done" /\ cb[p].status = HTTP_OK
Failed(p, detail) ==
    cb[p].pc = "done" /\ cb[p].status = HTTP_BAD_REQUEST /\ cb[p].detail = detail
Denied(p) == Failed(p, "OAuth error: access_denied")
ExchangeFailed(p) ==
    \/ Failed(p, "Slack OAuth token exchange failed: invalid_code")
    \/ Failed(p, "Slack OAuth token exchange failed: unknown_error")

\* The provider's answers to any request, and no answer.
AnyAnswers(code) == UNION { ProviderResponses(p, code) : p \in CbIds } \cup {NoResp}
CompleteAnswer(resp) ==
    ~resp.raised /\ resp.ok /\ resp.access_token # "" /\ resp.team_id # ""
AccessTokenOf(p) == "xoxb-" \o ToString(p)
PairRows(conns, user_id, team_id) ==
    { i \in DOMAIN conns : conns[i].user_id = user_id /\ conns[i].slack_team_id = team_id }
Arrives(p) == cb[p].pc = "idle" /\ cb'[p].pc # "idle"

\* The decision of lines 95-162 on a table whose one state row was issued at
\* minute 0 (it expires at STATE_TTL_MINUTES) and is used or not, at instant t.
OneState(used) ==
    << [OAuthStateRow(StateTokenOf(1), 1, STATE_TTL_MINUTES, 0) EXCEPT !.used = used] >>
Instants == 0..MaxTime
Decide(used, t, code, error, resp) ==
    ArriveOutcome(OneState(used), t, StateTokenOf(1), code, error, resp)
\* The row a request found, before the step.
Found(p) == oauth_states[cb'[p].st_id]
Finds(p) == Arrives(p) /\ cb'[p].st_id # 0
Returns(p) == cb[p].pc # "done" /\ cb'[p].pc = "done"

(* C1: a callback on a valid, unexpired, unused state with a code the provider *)
(* accepts goes on to the upsert; the success leaves the row used, and every   *)
(* callback that arrives with the same state after a success fails with 400   *)
(* 'State already used', whatever code, error or provider answer it has, and   *)
(* changes nothing.                                                            *)
C1_SucceedsExactlyOnce ==
    /\ \A used \in BOOLEAN, t \in Instants, code \in CallbackCodes, error \in CallbackErrors :
         \A resp \in AnyAnswers(code) :
           LET out == Decide(used, t, code, error, resp) IN
           /\ used =>
                 /\ out.pc = "done" /\ out.status = HTTP_BAD_REQUEST
                 /\ out.detail = "State already used" /\ ~out.posted
           /\ ( /\ ~used /\ t <= STATE_TTL_MINUTES
                /\ error = "" /\ code # "" /\ CompleteAnswer(resp) )
                 => out.pc = "exchanged"
    /\ [](/\ \A q \in CbIds : \A p \in cb[q].after :
                Succeeded(p) => Failed(q, "State already used")
          /\ \A p \in CbIds : Succeeded(p) => oauth_states[cb[p].st_id].used)
    /\ [][\A p \in CbIds :
            (Finds(p) /\ Found(p).used)
                => /\ Failed(p, "State already used")'
                   /\ UNCHANGED <<oauth_states, slack_connections, token_posts>>]_vars

C1_Witness ==
    \E q \in CbIds : \E p \in cb[q].after :
        Succeeded(p) /\ Failed(q, "State already used")

(* C2: of the callbacks that carry one state token, at most one succeeds, also *)
(* when they overlap in time.                                                  *)
C2_ConsumedOnceUnderOverlap ==
    \A p, q \in CbIds :
        (p # q /\ cb[p].state = cb[q].state /\ Succeeded(p)) => ~Succeeded(q)

(* C3: on an unused state whose expires_at is before the clock, the callback   *)
(* fails with 400 'State expired' for every code, error and provider answer,   *)
(* without calling the token endpoint and without changing either table; at    *)
(* now = expires_at the state is not reported expired.                         *)
C3_ExpiredStateRejected ==
    /\ \A t \in Instants, code \in CallbackCodes, error \in CallbackErrors :
         \A resp \in AnyAnswers(code) :
           LET out == Decide(FALSE, t, code, error, resp) IN
           IF t > STATE_TTL_MINUTES
           THEN /\ out.pc = "done" /\ out.status = HTTP_BAD_REQUEST
                /\ out.detail = "State expired" /\ ~out.posted
           ELSE out.detail # "State expired"
    /\ [][\A p \in CbIds :
            (Finds(p) /\ ~Found(p).used) =>
                IF now > Found(p).expires_at
                THEN /\ Failed(p, "State expired")'
                     /\ UNCHANGED <<oauth_states, slack_connections, token_posts>>
                ELSE cb'[p].detail # "State expired"]_vars

C3_Witness ==
    \E p \in CbIds :
        /\ Failed(p, "State expired")
        /\ ~oauth_states[cb[p].st_id].used
        /\ p \notin token_posts

(* C4: with an error parameter on a valid, unexpired, unused state the callback *)
(* commits used = TRUE and fails with 400 'OAuth error: <error>' whatever its   *)
(* code; every callback that arrives with that state afterwards fails with     *)
(* 'State already used'.                                                       *)
C4_DeniedStateConsumed ==
    /\ \A t \in Instants, code \in CallbackCodes :
         \A resp \in AnyAnswers(code) :
           LET out == Decide(FALSE, t, code, "access_denied", resp) IN
           t <= STATE_TTL_MINUTES => (out.pc = "denied" /\ ~out.posted)
    /\ [](/\ \A q \in CbIds : \A p \in cb[q].after :
                Denied(p) => Failed(q, "State already used")
          /\ \A p \in CbIds : Denied(p) => oauth_states[cb[p].st_id].used)
    /\ [][\A p \in CbIds :
            (cb[p].pc = "denied" /\ cb'[p].pc # "denied")
                => /\ cb'[p].pc = "done" /\ cb'[p].status = HTTP_BAD_REQUEST
                   /\ cb'[p].detail = "OAuth error: " \o cb[p].error
                   /\ oauth_states'[cb[p].st_id].used
                   /\ UNCHANGED slack_connections]_vars

C4_Witness ==
    \E q \in CbIds : \E p \in cb[q].after :
        Denied(p) /\ Failed(q, "State already used")

(* C5: when the provider answers the exchange with ok = false the callback     *)
(* fails with 400 'Slack OAuth token exchange failed: <error>' ('unknown_error' *)
(* without one), and the step writes neither table, so the state stays usable. *)
C5_ExchangeFailureKeepsState ==
    /\ \A t \in Instants, code \in CallbackCodes \ {""} :
         \A resp \in { r \in AnyAnswers(code) : ~r.raised /\ ~r.ok } :
           LET out == Decide(FALSE, t, code, "", resp) IN
           t <= STATE_TTL_MINUTES
               => /\ out.pc = "done" /\ out.status = HTTP_BAD_REQUEST /\ out.posted
                  /\ out.detail = "Slack OAuth token exchange failed: "
                         \o (IF resp.error = "" THEN "unknown_error" ELSE resp.error)
    /\ [](\A p \in CbIds : ExchangeFailed(p) =>
             \A i \in DOMAIN slack_connections :
                 slack_connections[i].bot_access_token # AccessTokenOf(p))
    /\ [][\A p \in CbIds :
            (Arrives(p) /\ ExchangeFailed(p)')
                => /\ p \in token_posts'
                   /\ UNCHANGED <<oauth_states, slack_connections>>]_vars

C5_Witness ==
    \E q \in CbIds : \E p \in cb[q].after :
        ExchangeFailed(p) /\ Succeeded(q)

(* C6: a successful callback for a (user, team) that has a row when the        *)
(* callback writes updates in place: no row is added, the pair has exactly one *)
(* row afterwards, and that row is 'active' and carries the callback's token,  *)
(* scope, authed user and team name.                                           *)
C6_UpsertUpdatesInPlace ==
    [][\A p \in CbIds :
         ( /\ cb[p].pc = "commit" /\ Returns(p)
           /\ PairRows(slack_connections, oauth_states[cb[p].st_id].user_id,
                       cb[p].resp.team_id) # {} ) =>
            LET rows == PairRows(slack_connections', oauth_states[cb[p].st_id].user_id,
                                 cb[p].resp.team_id)
            IN  /\ Len(slack_connections') = Len(slack_connections)
                /\ Cardinality(rows) = 1
                /\ \A e \in rows :
                      /\ slack_connections'[e].status = "active"
                      /\ slack_connections'[e].bot_access_token = cb[p].resp.access_token
                      /\ slack_connections'[e].scope = GrantedScope
                      /\ slack_connections'[e].authed_user_id = AuthedUser
                      /\ slack_connections'[e].slack_team_name = TeamName(cb[p].resp.team_id)]_vars

(* C7: the slack_connections table never holds two rows of one                 *)
(* (user_id, slack_team_id).  Stated for the states in which no state token    *)
(* was consumed by two callbacks, so that two rows of a pair come from         *)
(* callbacks with different tokens.                                            *)
C7_UniquePerOwnerTeam ==
    (\A p, q \in CbIds :
        (p # q /\ Succeeded(p) /\ Succeeded(q)) => cb[p].state # cb[q].state)
    => \A i, j \in DOMAIN slack_connections :
        ( /\ slack_connections[i].user_id = slack_connections[j].user_id
          /\ slack_connections[i].slack_team_id = slack_connections[j].slack_team_id )
            => i = j

(* C8: the credential of a successful callback and used = TRUE on its state    *)
(* become visible in the same step: a row carrying a callback's access token   *)
(* exists only while that callback's state is used, slack_connections changes  *)
(* only in a step that leaves the committing callback's state used, and a      *)
(* state becomes used on the success path only in a step that writes that      *)
(* callback's credential.                                                      *)
C8_UpsertAndUsedCommitTogether ==
    /\ [](\A p \in CbIds : \A i \in DOMAIN slack_connections :
             slack_connections[i].bot_access_token = AccessTokenOf(p)
                 => (Succeeded(p) /\ oauth_states[cb[p].st_id].used))
    /\ [][/\ slack_connections' # slack_connections =>
                \E p \in CbIds :
                    /\ cb[p].pc = "commit" /\ Succeeded(p)'
                    /\ oauth_states'[cb[p].st_id].used
          /\ \A p \in CbIds :
                (cb[p].pc = "commit" /\ cb'[p].pc # "commit") =>
                    /\ Succeeded(p)'
                    /\ oauth_states'[cb[p].st_id].used
                    /\ \E i \in DOMAIN slack_connections' :
                          /\ slack_connections'[i].bot_access_token = cb[p].resp.access_token
                          /\ slack_connections'[i].user_id = oauth_states[cb[p].st_id].user_id
                          /\ slack_connections'[i].slack_team_id = cb[p].resp.team_id
          /\ \A id \in DOMAIN oauth_states :
                (~oauth_states[id].used /\ oauth_states'[id].used) =>
                    \E p \in CbIds :
                        /\ cb[p].st_id = id /\ Returns(p)
                        /\ \/ cb[p].pc = "denied"
                           \/ /\ cb[p].pc = "commit"
                              /\ slack_connections' # slack_connections]_vars

C8_Witness ==
    \E p \in CbIds : \E i \in DOMAIN slack_connections :
        /\ Succeeded(p)
        /\ slack_connections[i].bot_access_token = AccessTokenOf(p)
        /\ oauth_states[cb[p].st_id].used

\* The rows of table `after` beyond those of table `before`, which it keeps.
Extends(before, after) ==
    /\ Len(after) >= Len(before)
    /\ \A i \in DOMAIN before : after[i] = before[i]

(* C24: /oauth/slack/start with a token that names a user adds exactly one row  *)
(* to oauth_states, owned by that user, with provider slack, used false and     *)
(* expires_at ten minutes after its creation, and redirects to the authorize    *)
(* URL of Slack with that row's state in it; with a missing or invalid token it *)
(* answers 401 and adds no row.  No start changes slack_connections or an       *)
(* existing row of oauth_states.                                                *)
C24_StartAddsOneState ==
    /\ [](\A session_token \in SessionTokens :
            LET r == slack_oauth_start(session_token, oauth_states, now)
                user_id == get_user_id_from_session_token(session_token)
                n == Len(oauth_states) + 1
            IN  IF Truthy(user_id)
                THEN /\ r.status = HTTP_REDIRECT
                     /\ Len(r.states) = n
                     /\ Extends(oauth_states, r.states)
                     /\ r.states[n].user_id = user_id
                     /\ r.states[n].provider = "slack"
                     /\ ~r.states[n].used
                     /\ r.states[n].created_at = now
                     /\ r.states[n].expires_at = now + STATE_TTL_MINUTES
                     /\ r.location.base = "https://slack.com/oauth/v2/authorize"
                     /\ r.location.state = r.states[n].state
                ELSE /\ r.status = HTTP_UNAUTHORIZED
                     /\ r.states = oauth_states
                     /\ r.location = NoLocation)
    /\ [][Len(oauth_states') # Len(oauth_states)
            => /\ \E session_token \in SessionTokens :
                    /\ Truthy(get_user_id_from_session_token(session_token))
                    /\ oauth_states'
                          = slack_oauth_start(session_token, oauth_states, now).states
               /\ Len(oauth_states') = Len(oauth_states) + 1
               /\ UNCHANGED slack_connections]_vars

C24_Witness ==
    /\ Len(oauth_states) = 2
    /\ oauth_states[1].user_id = 1
    /\ oauth_states[2].user_id = 2
    /\ oauth_states[2].expires_at = oauth_states[2].created_at + STATE_TTL_MINUTES
    /\ oauth_states[1].state # oauth_states[2].state
    /\ slack_connections = InitialConnections

\* The provider's answers with ok = true that lack the token or the team id.
IncompleteAnswers(p) ==
    { r \in ProviderResponses(p, "code-good") :
        ~r.raised /\ r.ok /\ (r.access_token = "" \/ r.team_id = "") }

(* C25: a callback whose exchange is answered with ok = true but without the    *)
(* access token or without the team id fails with a 4xx status and a detail     *)
(* that gives the reason, leaves slack_connections as it is and leaves its      *)
(* state unused.                                                               *)
C25_IncompleteAnswerIsClientError ==
    [][\A p \in CbIds, state \in CallbackStates :
         \A resp \in IncompleteAnswers(p) :
            ( /\ CallbackArrive(p, state, "code-good", "", resp)
              /\ p \in token_posts' )
                => /\ cb'[p].pc = "done"
                   /\ cb'[p].status \in 400..499
                   /\ cb'[p].detail = "Missing required fields from Slack response"
                   /\ UNCHANGED <<oauth_states, slack_connections>>
                   /\ ~oauth_states'[cb'[p].st_id].used]_vars

(* C26: no step removes a row of oauth_states, a row that is used stays used,   *)
(* and user_id, state, provider, created_at and expires_at of a row never       *)
(* change once the row exists.                                                  *)
C26_StatesKeptAndUsedMonotonic ==
    [][/\ Len(oauth_states') >= Len(oauth_states)
       /\ \A i \in DOMAIN oauth_states :
             /\ oauth_states[i].used => oauth_states'[i].used
             /\ oauth_states'[i] = [oauth_states[i] EXCEPT !.used = oauth_states'[i].used]]_vars

C26_Witness ==
    /\ Len(oauth_states) = 2
    /\ oauth_states[1].used /\ oauth_states[2].used
    /\ \E p, q \in CbIds :
          /\ Denied(p) /\ cb[p].st_id = 1
          /\ Succeeded(q) /\ cb[q].st_id = 2

\* The tables and the state parameters the order of the checks is tried on.
OrderTables == {<<>>, OneState(FALSE), OneState(TRUE)}
OrderStates == {"", "state-forged", StateTokenOf(1)}

(* C29: the callback decides by the first of these that applies: no state      *)
(* parameter or no row with it -> 400 'Invalid or missing state' / 'Invalid or *)
(* expired state'; the row is used -> 400 'State already used', expired or     *)
(* not; the clock is past expires_at -> 400 'State expired'; an error          *)
(* parameter -> the denial, 400 'OAuth error: <error>'; no code -> 400         *)
(* 'Missing code from Slack'.  The token endpoint is called only by a request  *)
(* that passed all five.                                                       *)
C29_ChecksInFixedOrder ==
    /\ \A states \in OrderTables, state \in OrderStates, t \in Instants,
          code \in CallbackCodes, error \in CallbackErrors :
         \A resp \in AnyAnswers(code) :
           LET out == ArriveOutcome(states, t, state, code, error, resp)
               Refused(detail) ==
                   /\ out.pc = "done" /\ out.status = HTTP_BAD_REQUEST
                   /\ out.detail = detail /\ ~out.posted
           IN  IF state = "" THEN Refused("Invalid or missing state")
               ELSE IF states = <<>> \/ state # states[1].state
               THEN Refused("Invalid or expired state")
               ELSE IF states[1].used THEN Refused("State already used")
               ELSE IF t > states[1].expires_at THEN Refused("State expired")
               ELSE IF error # "" THEN out.pc = "denied" /\ ~out.posted
               ELSE IF code = "" THEN Refused("Missing code from Slack")
               ELSE out.posted
    /\ [][\A p \in CbIds :
            /\ Arrives(p) =>
                 IF cb'[p].state = "" THEN Failed(p, "Invalid or missing state")'
                 ELSE IF cb'[p].st_id = 0 THEN Failed(p, "Invalid or expired state")'
                 ELSE IF Found(p).used THEN Failed(p, "State already used")'
                 ELSE IF now > Found(p).expires_at THEN Failed(p, "State expired")'
                 ELSE \/ cb'[p].pc = "denied"
                      \/ Failed(p, "Missing code from Slack")'
                      \/ p \in token_posts'
            /\ (p \in token_posts' /\ p \notin token_posts)
                  => /\ Finds(p) /\ ~Found(p).used /\ now <= Found(p).expires_at
                     /\ cb'[p].pc # "denied"
                     /\ cb'[p].detail # "Missing code from Slack"
            /\ (cb[p].pc = "denied" /\ cb'[p].pc # "denied")
                  => /\ cb'[p].pc = "done" /\ cb'[p].status = HTTP_BAD_REQUEST
                     /\ cb'[p].detail = "OAuth error: " \o cb[p].error]_vars

C29_Witness ==
    \E p \in CbIds :
        /\ Failed(p, "State already used")
        /\ now > oauth_states[cb[p].st_id].expires_at
        /\ \E q \in cb[p].after : Denied(q)

\* The request ended without the success answer.
Fails(p) == Returns(p) /\ cb'[p].status # HTTP_OK

(* C30: no step of a callback that fails writes slack_connections.  A callback *)
(* that fails on its state, on a missing code or on the provider's answer      *)
(* (ok = false, no token or team id, no answer at all) leaves oauth_states as  *)
(* it is; a callback that fails on the error parameter sets used on the row    *)
(* of its state and changes nothing else of oauth_states.  A callback that has *)
(* reached its credential query does not fail.                                 *)
C30_FailureLeavesStores ==
    [][\A p \in CbIds :
         /\ Fails(p) =>
               /\ UNCHANGED slack_connections
               /\ IF cb[p].pc = "denied"
                  THEN /\ oauth_states[cb[p].st_id].state = cb[p].state
                       /\ oauth_states'
                             = [oauth_states EXCEPT ![cb[p].st_id].used = TRUE]
                  ELSE /\ Arrives(p)
                       /\ UNCHANGED oauth_states
         /\ (Arrives(p) /\ cb'[p].pc = "denied")
               => UNCHANGED <<oauth_states, slack_connections>>
         /\ (cb[p].pc \in {"exchanged", "commit"} /\ Returns(p)) => Succeeded(p)']_vars

C30_Witness ==
    /\ Len(oauth_states) = 2
    /\ slack_connections = InitialConnections
    /\ \E p, q \in CbIds :
          /\ Denied(p) /\ oauth_states[cb[p].st_id].used
          /\ cb[q].pc = "done" /\ cb[q].status = HTTP_SERVER_ERROR
          /\ cb[q].st_id # 0 /\ cb[q].st_id # cb[p].st_id
          /\ ~oauth_states[cb[q].st_id].used

\* The rows of the table after the step that the step added or changed.
Written(i) ==
    i \notin DOMAIN slack_connections \/ slack_connections'[i] # slack_connections[i]

(* C31: every row of slack_connections that a successful callback adds or      *)
(* changes has the user_id of the oauth_states row the callback's state        *)
(* names, the user whose session token started the link; a row that carries a  *)
(* callback's access token belongs to that user, and no step changes the       *)
(* user_id of a row.                                                           *)
C31_CredentialOwnedByStarter ==
    /\ [](\A p \in CbIds : \A i \in DOMAIN slack_connections :
             slack_connections[i].bot_access_token = AccessTokenOf(p)
                 => /\ cb[p].st_id # 0
                    /\ slack_connections[i].user_id = oauth_states[cb[p].st_id].user_id)
    /\ [][/\ \A i \in DOMAIN slack_connections :
                slack_connections'[i].user_id = slack_connections[i].user_id
          /\ \A p \in CbIds :
                (cb[p].pc = "commit" /\ Returns(p)) =>
                    /\ \E i \in DOMAIN slack_connections' : Written(i)
                    /\ \A i \in DOMAIN slack_connections' :
                          Written(i) => slack_connections'[i].user_id
                                           = oauth_states[cb[p].st_id].user_id]_vars

C31_Witness ==
    \E p \in CbIds : \E i \in DOMAIN slack_connections :
        /\ Succeeded(p)
        /\ oauth_states[cb[p].st_id].user_id = 2
        /\ slack_connections[i].bot_access_token = AccessTokenOf(p)
        /\ slack_connections[i].user_id = 2
        /\ slack_connections[i].slack_team_id = "T1"
        /\ slack_connections[1] = InitialConnections[1]

\* No two rows of one user were installed at the same instant, so the
\* credential query has one answer.
DistinctInstalls(conns) ==
    \A i, j \in DOMAIN conns :
        (i # j /\ conns[i].user_id = conns[j].user_id)
            => conns[i].installed_at # conns[j].installed_at

(* C33: right after a callback succeeds for user u and team t, the row that    *)
(* the credential query of the engine returns for u is the row of t and        *)
(* carries the token just exchanged, whether the callback added the row or     *)
(* updated it.  Stated for a callback that commits while no other callback is  *)
(* under way, whose state no other callback carried, and for tables in which   *)
(* the query has one answer.                                                   *)
C33_LinkedCredentialIsResolved ==
    [][\A p \in CbIds :
         ( /\ cb[p].pc = "commit" /\ Returns(p)
           /\ \A q \in CbIds \ {p} :
                 cb[q].pc \in {"idle", "done"} /\ cb[q].state # cb[p].state
           /\ DistinctInstalls(slack_connections') )
            => \A conn \in LatestActive(slack_connections',
                                        oauth_states[cb[p].st_id].user_id) :
                  /\ conn # 0
                  /\ slack_connections'[conn].slack_team_id = cb[p].resp.team_id
                  /\ slack_connections'[conn].bot_access_token
                        = cb[p].resp.access_token]_vars

(* ======================================================================= *)
(*                    Properties of the protocol engine                    *)
(* ======================================================================= *)
\* The identity the last message was handled for.
Caller == get_user_id_from_session_token(exchange.session_token)
\* No row the credential query can return carries a token.
NotLinked(user_id) ==
    \A conn \in LatestActive(slack_connections, user_id) : ~Connected(slack_connections, conn)
IsLinkUrl(part) == \E t \in SessionTokens : part = connect_url_for_user(t)
OnServer == exchange.binding \in {"websocket", "http"}

(* C9: a tools/call (with an id) of an authenticated caller without an active  *)
(* connection that carries a token is answered, on the WebSocket and on the    *)
(* HTTP endpoint, by one result frame that is not an error, is not flagged     *)
(* isError and whose text holds the link-start URL; no Slack endpoint is       *)
(* requested and no exception leaves the handler.                              *)
C9_NotLinkedCallAnswersWithLink ==
    ( /\ OnServer /\ exchange.line = "json"
      /\ exchange.message.method = "tools/call" /\ exchange.message.id # NoneId
      /\ Truthy(Caller) /\ NotLinked(Caller) )
    => /\ Len(exchange.frames) = 1
       /\ ~exchange.frames[1].error
       /\ ~exchange.frames[1].result.isError
       /\ \E i \in DOMAIN exchange.frames[1].result.text :
              IsLinkUrl(exchange.frames[1].result.text[i])
       /\ exchange.api_calls = <<>>
       /\ ~exchange.raised

(* C10: a message without an id that arrives with a valid session token        *)
(* produces no output: no frame on the WebSocket, no JSON-RPC message from the *)
(* HTTP endpoint, no line from the bridge, whatever its method.                *)
C10_NoIdNoFrame ==
    ( /\ exchange.binding \in {"websocket", "http", "bridge"}
      /\ exchange.line = "json"
      /\ Truthy(Caller)
      /\ exchange.message.id = NoneId )
    => exchange.frames = <<>>

\* A method the protocol treats as a notification.
IsNotification(method) == method = "initialized" \/ startswith(method, "notifications/")

(* C11: a message of an authenticated caller whose method is initialized or    *)
(* starts with notifications/ is consumed silently on every binding: no frame  *)
(* is produced (so no -32601 error either) and the handler's loop goes on.     *)
C11_NotificationsAreSilent ==
    ( /\ exchange.binding \in {"websocket", "http", "bridge"}
      /\ exchange.line = "json"
      /\ Truthy(Caller)
      /\ IsNotification(exchange.message.method) )
    => /\ exchange.frames = <<>>
       /\ ~exchange.raised

\* The socket was opened with a session token that names no user.
BadSocket == websocket.state # "new" /\ get_user_id_from_session_token(websocket.session_token) = NoneId

(* C12: a WebSocket opened with a missing or invalid session token is closed   *)
(* with code 1008 by the handshake: it is never open, nothing is added to      *)
(* active_connections, and no message is received and no frame sent on it.     *)
C12_BadTokenSocketClosed1008 ==
    /\ [](BadSocket => /\ websocket.state = "closed"
                       /\ websocket.close_code = WS_POLICY_VIOLATION
                       /\ active_connections = NoConnections
                       /\ exchange = IdleExchange)
    /\ [][(websocket.state = "new" /\ BadSocket')
             => /\ websocket'.state = "closed"
                /\ UNCHANGED <<active_connections, exchange>>]_vars

C12_Witness ==
    /\ websocket.state = "closed"
    /\ websocket.close_code = WS_POLICY_VIOLATION
    /\ websocket.session_token = "jwt-forged"
    /\ active_connections = NoConnections

\* Session tokens that are missing or name no user.
BadTokens == { t \in SessionTokens : ~Truthy(get_user_id_from_session_token(t)) }
\* The answer of POST /mcp/http is the 401 with error -32001 and nothing else.
Unauthorized(r) ==
    /\ r.status = HTTP_UNAUTHORIZED
    /\ Len(r.frames) = 1
    /\ r.frames[1] = ErrorFrame(NoneId, JSONRPC_UNAUTHORIZED, r.frames[1].message)
    /\ r.api_calls = <<>>

(* C13: with a missing or invalid session token no binding of the server       *)
(* dispatches a method, looks a connection up or requests a Slack endpoint:     *)
(* POST /mcp/http answers 401 with error -32001 whatever the body (JSON or not) *)
(* and whatever the table holds, GET /mcp/sse is refused with 401 and opens no  *)
(* stream, and the WebSocket handles no message.                                *)
C13_NoDispatchWithoutToken ==
    /\ \A t \in BadTokens, body \in Bodies, conns \in CredentialStores, slack \in SlackOutcomes :
         \A conn \in 0..Len(conns) :
            /\ Unauthorized(mcp_http_endpoint(t, body, conns, conn, slack))
            /\ mcp_http_endpoint(t, body, conns, conn, slack)
                   = mcp_http_endpoint(t, [kind |-> "malformed", message |-> NoMessage],
                                       <<>>, 0, "ok")
    /\ []( (exchange.binding \in {"websocket", "http", "sse"} /\ exchange.session_token \in BadTokens)
           => /\ exchange.api_calls = <<>>
              /\ \A i \in DOMAIN exchange.frames :
                    exchange.frames[i].error /\ exchange.frames[i].code = JSONRPC_UNAUTHORIZED
              /\ exchange.status = HTTP_UNAUTHORIZED
              /\ exchange.binding = "http" => Unauthorized(exchange)
              /\ exchange.binding = "sse"
                    => exchange.frames = <<>> /\ sse_transport.state = "rejected"
              /\ exchange.binding # "websocket" )

C13_Witness ==
    /\ exchange.binding = "http"
    /\ exchange.session_token = "jwt-forged"
    /\ exchange.line = "malformed"
    /\ exchange.status = HTTP_UNAUTHORIZED
    /\ exchange.frames[1].code = JSONRPC_UNAUTHORIZED

GoodTokens == SessionTokens \ BadTokens
\* Every (table, row the credential query returns) the engine can work with.
Lookups == UNION { {conns} \X (0..Len(conns)) : conns \in CredentialStores }
\* The catalog the binding of the last exchange serves.
CatalogOf(binding) == IF binding = "websocket" THEN TOOLS ELSE list_tools

(* C14: a tools/list request of an authenticated caller is answered, on the    *)
(* WebSocket, on POST /mcp/http and on the SSE stream, by one result frame that *)
(* carries the whole static catalog of the binding, list_channels and          *)
(* send_message included; the answer is the same for every user, every table,  *)
(* every Slack outcome and after any earlier message.                          *)
C14_ToolsListStaticCatalog ==
    /\ \A m \in { x \in Messages : x.method = "tools/list" } :
       \A t1 \in GoodTokens, t2 \in GoodTokens, l1 \in Lookups, l2 \in Lookups,
          s1 \in SlackOutcomes, s2 \in SlackOutcomes :
          /\ slack_mcp_websocket(m, t1, l1[1], l1[2], s1)
                = slack_mcp_websocket(m, t2, l2[1], l2[2], s2)
          /\ mcp_http_endpoint(t1, [kind |-> "json", message |-> m], l1[1], l1[2], s1)
                = mcp_http_endpoint(t2, [kind |-> "json", message |-> m], l2[1], l2[2], s2)
    /\ []( ( /\ exchange.binding \in {"websocket", "http", "sse"}
             /\ exchange.line = "json"
             /\ exchange.message.method = "tools/list"
             /\ exchange.message.id # NoneId
             /\ Truthy(Caller) )
           => /\ exchange.frames
                   = <<ResultFrame(exchange.message.id,
                                   ToolsResult(CatalogOf(exchange.binding)))>>
              /\ {"list_channels", "send_message"}
                   \subseteq exchange.frames[1].result.tools
              /\ exchange.api_calls = <<>>
              /\ ~exchange.raised )

C14_Witness ==
    /\ exchange.binding = "websocket"
    /\ exchange.message.method = "tools/list"
    /\ exchange.message.id # NoneId
    /\ NotLinked(Caller)
    /\ exchange.frames[1].result.tools = TOOLS

\* The answer says the tool does not exist.
UnknownTool(frames) ==
    /\ Len(frames) = 1
    /\ ~frames[1].error
    /\ Len(frames[1].result.text) >= 1
    /\ frames[1].result.text[1] = "Unknown tool: "
\* What POST /mcp/http answers to the message of the last exchange, for the
\* same session token and the same table.
SameOnHttp(conn, slack) ==
    mcp_http_endpoint(exchange.session_token, [kind |-> "json", message |-> exchange.message],
                      slack_connections, conn, slack)

(* C15: the WebSocket and POST /mcp/http serve the same engine: for a request  *)
(* the WebSocket has answered, the HTTP endpoint given the same token, table   *)
(* and message lists the same tool names for tools/list, and for tools/call    *)
(* knows the tool exactly when the WebSocket knows it.                         *)
C15_SameEngineOnEveryBinding ==
    ( /\ exchange.binding = "websocket"
      /\ exchange.line = "json"
      /\ exchange.message.id # NoneId
      /\ exchange.message.method \in {"tools/list", "tools/call"}
      /\ Len(exchange.frames) = 1 )
    => \A conn \in LatestActive(slack_connections, Caller) :
       \A slack \in SlackOutcomesWith(slack_connections, conn) :
          /\ exchange.message.method = "tools/list"
                => SameOnHttp(conn, slack).frames[1].result.tools
                      = exchange.frames[1].result.tools
          /\ exchange.message.method = "tools/call"
                => (UnknownTool(SameOnHttp(conn, slack).frames) <=> UnknownTool(exchange.frames))

\* The methods a binding has a branch for.
RecognizedBy(binding) ==
    IF binding = "websocket"
    THEN {"initialize", "notifications/initialized", "initialized",
          "tools/list", "tools/call", "tools.list", "tools.call"}
    ELSE {"initialize", "tools/list", "tools/call"}
\* The last exchange is a request with an id for a method its binding has no
\* branch for and that is no notification.
UnknownRequest(x) ==
    /\ x.binding \in {"websocket", "http"}
    /\ x.line = "json"
    /\ Truthy(get_user_id_from_session_token(x.session_token))
    /\ x.message.id # NoneId
    /\ x.message.method \notin RecognizedBy(x.binding)
    /\ ~IsNotification(x.message.method)

(* C16: a request with an id whose method the binding does not know is         *)
(* answered by one error frame with the request's id, code -32601 and a        *)
(* message that contains the method name; no Slack endpoint is requested, no   *)
(* exception leaves the handler, and the WebSocket stays open and registered,  *)
(* ready for the next message.                                                 *)
C16_UnknownMethodAnswered32601 ==
    /\ [](UnknownRequest(exchange)
            => /\ Len(exchange.frames) = 1
               /\ exchange.frames[1].error
               /\ exchange.frames[1].code = JSONRPC_METHOD_NOT_FOUND
               /\ exchange.frames[1].id = exchange.message.id
               /\ \E i \in DOMAIN exchange.frames[1].message :
                     exchange.frames[1].message[i] = exchange.message.method
               /\ exchange.api_calls = <<>>
               /\ ~exchange.raised)
    /\ [][(exchange' # exchange /\ UnknownRequest(exchange') /\ exchange'.binding = "websocket")
             => /\ websocket.state = "open"
                /\ UNCHANGED <<websocket, active_connections>>]_vars

C16_Witness ==
    /\ UnknownRequest(exchange)
    /\ exchange.binding = "websocket"
    /\ exchange.message.method = "resources/list"
    /\ exchange.frames[1].code = JSONRPC_METHOD_NOT_FOUND
    /\ websocket.state = "open"

\* The last exchange is a tools/call of fetch_history with a channel_id.
HistoryCall ==
    /\ exchange.line = "json"
    /\ exchange.message.method = "tools/call"
    /\ exchange.message.params.name = "fetch_history"
    /\ exchange.message.params.arguments.channel_id # ""
\* The limit the caller asked for.
RequestedLimit ==
    IF exchange.message.params.arguments.limit = NoneId
    THEN FETCH_HISTORY_LIMIT
    ELSE exchange.message.params.arguments.limit
\* The requests of the last exchange to conversations.history.
HistoryRequests ==
    { i \in DOMAIN exchange.api_calls : exchange.api_calls[i].endpoint = "conversations.history" }

(* C17: every request to conversations.history that a fetch_history call with  *)
(* a channel_id produces carries limit = min(requested, 100), the requested    *)
(* limit being 10 when the argument is absent: never more than 100, and the    *)
(* requested limit itself when that is at most 100.  A linked caller's call on *)
(* POST /mcp/http and on the SSE stream produces exactly one such request.     *)
C17_HistoryLimitCapped ==
    HistoryCall
    => /\ \A i \in HistoryRequests :
             /\ exchange.api_calls[i].data.limit <= SLACK_MAX_LIMIT
             /\ RequestedLimit <= SLACK_MAX_LIMIT
                   => exchange.api_calls[i].data.limit = RequestedLimit
             /\ RequestedLimit > SLACK_MAX_LIMIT
                   => exchange.api_calls[i].data.limit = SLACK_MAX_LIMIT
             /\ exchange.api_calls[i].data.channel
                   = exchange.message.params.arguments.channel_id
       /\ ( /\ exchange.binding \in {"http", "sse"}
            /\ Truthy(Caller)
            /\ ~NotLinked(Caller) )
          => HistoryRequests = {1} /\ Len(exchange.api_calls) = 1

C17_Witness ==
    /\ HistoryCall
    /\ exchange.binding = "http"
    /\ exchange.message.params.arguments.limit = 500
    /\ HistoryRequests = {1}
    /\ exchange.api_calls[1].data.limit = SLACK_MAX_LIMIT

\* sub in s
Contains(s, sub) ==
    \E i \in 1..(Len(s) - Len(sub) + 1) : SubSeq(s, i, i + Len(sub) - 1) = sub
\* The last exchange invokes a tool: tools/call, or tools.call on the WebSocket.
ToolInvocation(name) ==
    /\ exchange.binding \in {"websocket", "http", "sse"}
    /\ exchange.line = "json"
    /\ \/ exchange.message.method = "tools/call"
       \/ exchange.message.method = "tools.call" /\ exchange.binding = "websocket"
    /\ exchange.message.params.name = name
    /\ exchange.message.id # NoneId
    /\ Truthy(Caller)

(* C18: when a linked caller invokes send_message without channel_id or        *)
(* without text (absent or empty), the answer is one result frame whose text   *)
(* names channel_id and text, nothing is sent to chat.postMessage and no       *)
(* exception ends the session.                                                 *)
C18_MissingArgumentsRefused ==
    ( /\ ToolInvocation("send_message")
      /\ ~NotLinked(Caller)
      /\ \/ exchange.message.params.arguments.channel_id = ""
         \/ exchange.message.params.arguments.text = "" )
    => /\ Len(exchange.frames) = 1
       /\ ~exchange.frames[1].error
       /\ exchange.frames[1].result.shape = "content"
       /\ \E i \in DOMAIN exchange.frames[1].result.text :
             /\ Contains(exchange.frames[1].result.text[i], "channel_id")
             /\ Contains(exchange.frames[1].result.text[i], "text")
       /\ exchange.api_calls = <<>>
       /\ ~exchange.raised

(* C19: a tool invocation that requested a Slack endpoint, whether Slack       *)
(* answered or the request failed, is answered by exactly one result frame,    *)
(* and no exception leaves the handler, so the session is not ended; this for  *)
(* tools/call and tools.call on the WebSocket and for call_tool on HTTP and    *)
(* SSE (send_message being invoked with both of its arguments).                *)
C19_ApiFailureCaught ==
    ( /\ \E name \in ToolNames : ToolInvocation(name)
      /\ exchange.message.params.name = "send_message"
            => /\ exchange.message.params.arguments.channel_id # ""
               /\ exchange.message.params.arguments.text # ""
      /\ exchange.api_calls # <<>> )
    => /\ Len(exchange.frames) = 1
       /\ ~exchange.frames[1].error
       /\ ~exchange.raised

\* The rows of the user with status active.
ActiveRows(user_id) ==
    { i \in DOMAIN slack_connections :
        /\ slack_connections[i].user_id = user_id
        /\ slack_connections[i].status = "active" }
\* The answer of the last exchange says that Slack is not connected.
NotConnectedAnswer ==
    /\ Len(exchange.frames) = 1
    /\ \/ /\ ~exchange.frames[1].error
          /\ Len(exchange.frames[1].result.text) >= 1
          /\ startswith(exchange.frames[1].result.text[1], "Slack not connected.")
       \/ /\ exchange.frames[1].error
          /\ exchange.frames[1].message = <<"Slack not connected.">>

(* C20: the credential a tool invocation works with is the caller's own: every *)
(* request to Slack carries the token of a row of the caller whose status is   *)
(* active and whose installed_at is the greatest among the caller's active     *)
(* rows, never the token of another user's row or of a row that is not active; *)
(* and the invocation is answered "not connected" only when the caller has no  *)
(* active row with a token.                                                    *)
C20_LatestActiveCredentialOfCaller ==
    /\ \A i \in DOMAIN exchange.api_calls :
          \E row \in ActiveRows(Caller) :
             /\ slack_connections[row].bot_access_token = exchange.api_calls[i].authorization
             /\ \A other \in ActiveRows(Caller) :
                   slack_connections[other].installed_at
                      <= slack_connections[row].installed_at
    /\ ( (\E name \in ToolNames : ToolInvocation(name)) /\ NotConnectedAnswer )
          => \A row \in ActiveRows(Caller) : slack_connections[row].bot_access_token = ""

C20_Witness ==
    /\ ToolInvocation("list_channels")
    /\ Caller = 1
    /\ Len(slack_connections) = 2
    /\ slack_connections[2].user_id = 2
    /\ slack_connections[2].status = "active"
    /\ slack_connections[2].installed_at > slack_connections[1].installed_at
    /\ Len(exchange.api_calls) = 1
    /\ exchange.api_calls[1].authorization = slack_connections[1].bot_access_token

(* ======================================================================= *)
(*                     Properties of the WebSocket sessions                *)
(* ======================================================================= *)
\* The messages of socket w that were read and whose handling has not finished.
InHand(w) == Len(sessions[w].received) - sessions[w].finished

(* C21: on one socket messages are handled one at a time: a message is read    *)
(* only when the handling of every message read before it has finished (its    *)
(* request to Slack made, its frame sent), so at most one message is in hand,  *)
(* messages are read in the order written, and the ids of the frames sent on   *)
(* the socket follow the order of the requests.                                *)
C21_OneMessageAtATime ==
    /\ [](\A w \in Sockets :
            /\ InHand(w) \in {0, 1}
            /\ sessions[w].pc = "receive" => InHand(w) = 0
            /\ sessions[w].received = [i \in 1..Len(sessions[w].received) |-> i]
            /\ \A i \in DOMAIN sessions[w].outbox :
                  /\ sessions[w].outbox[i] \in 1..Len(sessions[w].received)
                  /\ \A j \in DOMAIN sessions[w].outbox :
                        i < j => sessions[w].outbox[i] < sessions[w].outbox[j])
    /\ [][\A w \in Sockets :
            Len(sessions'[w].received) > Len(sessions[w].received)
               => /\ InHand(w) = 0
                  /\ sessions[w].pc = "receive"
                  /\ Len(sessions'[w].received) = Len(sessions[w].received) + 1]_vars

C21_Witness ==
    /\ sessions[1].outbox = <<1>>
    /\ sessions[1].pc = "send"
    /\ sessions[1].message.id = 2
    /\ sessions[2].pc = "handle"

(* C22: on an open WebSocket every message that carries an id and whose method *)
(* is no notification is answered by exactly one frame, a result or an error,  *)
(* with that id: initialize, tools/list, tools/call, tools.list, tools.call    *)
(* and unknown methods, whatever the tool name (a handler that a failed        *)
(* request to Slack has ended is the matter of C19 and is left aside).         *)
C22_OneFramePerRequest ==
    ( /\ exchange.binding = "websocket"
      /\ exchange.line = "json"
      /\ exchange.message.id # NoneId
      /\ ~IsNotification(exchange.message.method)
      /\ ~exchange.raised )
    => /\ Len(exchange.frames) = 1
       /\ exchange.frames[1].id = exchange.message.id

(* C23: active_connections has an entry for a socket exactly while the socket  *)
(* is open (accepted and its loop not left); the entry is the user the token   *)
(* named at the handshake and never changes; it is removed when the loop is    *)
(* left, by a disconnect or by an exception; and a step of one socket leaves   *)
(* the entries of the other sockets as they are.                               *)
C23_MapEntryWhileOpen ==
    /\ [](\A w \in Sockets :
            /\ w \in DOMAIN active_connections <=> sessions[w].state = "open"
            /\ w \in DOMAIN active_connections
                  => active_connections[w]
                        = get_user_id_from_session_token(sessions[w].session_token))
    /\ [][\A w \in Sockets :
            /\ (w \in DOMAIN active_connections /\ w \in DOMAIN active_connections')
                  => active_connections'[w] = active_connections[w]
            /\ sessions'[w] = sessions[w]
                  => (w \in DOMAIN active_connections' <=> w \in DOMAIN active_connections)
            /\ (sessions[w].state = "open" /\ sessions'[w].state # "open")
                  => w \notin DOMAIN active_connections'
            /\ (sessions[w].state # "open" /\ w \in DOMAIN active_connections')
                  => sessions[w].state = "new"]_vars

C23_Witness ==
    /\ sessions[1].state = "closed"
    /\ sessions[1].out.raised
    /\ sessions[2].state = "open"
    /\ DOMAIN active_connections = {2}
    /\ active_connections[2] = 2


(* ======================================================================= *)
(*               The engine, the tables and the Slack Web API               *)
(* ======================================================================= *)
(* C27: no message handled by the engine, on any binding, changes a row of     *)
(* slack_connections or of oauth_states, whatever its method; and initialize   *)
(* is answered with the server's static metadata whatever the table holds and  *)
(* whatever row the credential query would return, with no catalog in the      *)
(* answer and no request to Slack.                                             *)
C27_EngineOnlyReads ==
    /\ \A m \in { x \in Messages : x.method = "initialize" } :
       \A t \in GoodTokens, l \in Lookups, s \in SlackOutcomes :
          /\ slack_mcp_websocket(m, t, l[1], l[2], s)
                = Reply(ResultFrame(m.id, InitializeResult("slack-mcp")))
          /\ mcp_http_endpoint(t, [kind |-> "json", message |-> m], l[1], l[2], s)
                = HttpResponse(HTTP_OK,
                               ResultFrame(m.id, InitializeResult("slack-mcp-server")), <<>>)
    /\ []( ( /\ exchange.line = "json"
             /\ exchange.message.method = "initialize"
             /\ exchange.binding \in {"websocket", "http", "bridge"} )
           => /\ exchange.api_calls = <<>>
              /\ \A i \in DOMAIN exchange.frames :
                    exchange.frames[i].result.tools = {} )
    /\ [][ exchange' # exchange
             => UNCHANGED <<slack_connections, oauth_states>> ]_vars

C27_Witness ==
    /\ exchange.binding = "websocket"
    /\ exchange.message.method = "tools/call"
    /\ Len(exchange.api_calls) = 1
    /\ exchange.api_calls[1].authorization = "xoxb-1"
    /\ Len(slack_connections) = 2
    /\ slack_connections[2].bot_access_token = "xoxb-1"
    /\ slack_connections[2].status = "active"

\* The last exchange is a call of list_channels.
ListingCall ==
    /\ exchange.line = "json"
    /\ exchange.message.method \in {"tools/call", "tools.call"}
    /\ exchange.message.params.name = "list_channels"
\* The requests of the last exchange to conversations.list.
ListingRequests ==
    { i \in DOMAIN exchange.api_calls : exchange.api_calls[i].endpoint = "conversations.list" }

(* C28: every request to conversations.list that a list_channels call produces *)
(* carries limit 20 when the call has no limit and the call's limit, as it is, *)
(* when it has one; its types are public_channel alone when include_private is *)
(* absent or false, and public_channel and private_channel when it is true.  A *)
(* linked caller's call on the WebSocket, on POST /mcp/http and on the SSE     *)
(* stream produces exactly one such request.                                   *)
C28_ListingLimitAndTypes ==
    ListingCall
    => LET args == exchange.message.params.arguments IN
       /\ \A i \in ListingRequests :
             /\ args.limit = NoneId => exchange.api_calls[i].data.limit = 20
             /\ args.limit # NoneId => exchange.api_calls[i].data.limit = args.limit
             /\ args.include_private \in {"", "false"}
                   => exchange.api_calls[i].data.types = "public_channel"
             /\ args.include_private = "true"
                   => exchange.api_calls[i].data.types = "public_channel,private_channel"
       /\ ( /\ \/ exchange.binding = "websocket"
               \/ /\ exchange.binding \in {"http", "sse"}
                  /\ exchange.message.method = "tools/call"
            /\ Truthy(Caller)
            /\ ~NotLinked(Caller) )
          => ListingRequests = {1} /\ Len(exchange.api_calls) = 1

C28_Witness ==
    /\ ListingCall
    /\ exchange.binding = "websocket"
    /\ exchange.message.params.arguments.limit = 500
    /\ ListingRequests = {1}
    /\ exchange.api_calls[1].data.limit = 500
    /\ exchange.api_calls[1].data.types = "public_channel"


\* The last exchange is a tools/call of a caller with a usable credential.
LinkedCall ==
    /\ exchange.binding \in {"websocket", "http", "sse"}
    /\ exchange.line = "json"
    /\ exchange.message.method = "tools/call"
    /\ Truthy(Caller)
    /\ ~NotLinked(Caller)

(* C34: on the WebSocket, on POST /mcp/http and on the SSE stream, a           *)
(* tools/call of a linked caller that names a tool of the binding's catalog is *)
(* dispatched to that tool and not answered 'Unknown tool'; one that names any *)
(* other tool requests nothing from Slack and is answered with one result      *)
(* whose text is 'Unknown tool: <name>'.                                       *)
C34_CatalogMatchesDispatcher ==
    LinkedCall
    => LET name == exchange.message.params.name IN
       /\ Len(exchange.frames) = 1
       /\ ~exchange.frames[1].error
       /\ name \in CatalogOf(exchange.binding)
             => /\ ~UnknownTool(exchange.frames)
                /\ \A i \in DOMAIN exchange.api_calls :
                      exchange.api_calls[i].endpoint
                         = IF name = "list_channels" THEN "conversations.list"
                           ELSE IF name = "send_message" THEN "chat.postMessage"
                           ELSE "conversations.history"
       /\ name \notin CatalogOf(exchange.binding)
             => /\ exchange.api_calls = <<>>
                /\ exchange.frames[1].result.text = <<"Unknown tool: ", name>>

C34_Witness ==
    /\ LinkedCall
    /\ exchange.binding = "websocket"
    /\ exchange.message.params.name = "fetch_history"
    /\ exchange.frames[1].result.text = <<"Unknown tool: ", "fetch_history">>
    /\ exchange.api_calls = <<>>

\* The JSON lines the bridge answers: requests that are no notification.
BridgeRequests == { m \in Messages : ~IsNotification(m.method) }
\* The line of the last exchange with a failure of the POST in it.
HttpFailed(frame) ==
    /\ frame.error
    /\ frame.message[1] \in {"HTTP Error: ", "Cannot connect to MCP server",
                             "MCP endpoint not found. Server may not be deployed yet."}

(* C35: for every JSON line with a method that is no notification the bridge   *)
(* prints exactly one line.  initialize is answered by the bridge itself, the  *)
(* same whether the server can be reached or not; every other request gets the *)
(* server's answer, or, when the POST ends in 404, another error status or a   *)
(* connection error, an error of code -32000; a request's id is the id of the  *)
(* line printed in all these cases.  A line that is not JSON prints nothing    *)
(* and the loop goes on.                                                       *)
C35_BridgeAnswersEveryRequest ==
    /\ \A m \in BridgeRequests, token \in SessionTokens \ {""}, l \in Lookups,
          network \in Networks :
         LET out == bridge_main([kind |-> "json", message |-> m], token, l[1], l[2],
                                "ok", network)
             id == IF m.id = NoneId THEN 0 ELSE m.id
         IN  /\ Len(out.frames) = 1 /\ ~out.raised
             /\ out.frames[1].id = id
             /\ m.method = "initialize"
                   => out = Reply(ResultFrame(id, InitializeResult("slack-mcp-bridge")))
             /\ (m.method # "initialize" /\ network = "unreachable")
                   => out = Reply(ErrorFrame(id, JSONRPC_SERVER_ERROR,
                                             <<"Cannot connect to MCP server">>))
             /\ (m.method # "initialize" /\ network = "not_found")
                   => /\ HttpFailed(out.frames[1])
                      /\ out.frames[1].code = JSONRPC_SERVER_ERROR
             /\ ( /\ m.method # "initialize" /\ network = "reached"
                  /\ ~Truthy(get_user_id_from_session_token(token)) )
                   => out = Reply(ErrorFrame(id, JSONRPC_SERVER_ERROR,
                                             <<"HTTP Error: ", "401">>))
    /\ []( exchange.binding = "bridge" =>
            /\ ( exchange.line = "json" /\ ~IsNotification(exchange.message.method) )
                  => /\ Len(exchange.frames) = 1
                     /\ ~exchange.raised /\ bridge.state = "running"
                     /\ exchange.message.id # NoneId
                           => exchange.frames[1].id = exchange.message.id
                     /\ HttpFailed(exchange.frames[1])
                           => /\ exchange.frames[1].code = JSONRPC_SERVER_ERROR
                              /\ exchange.api_calls = <<>>
                     /\ Len(exchange.api_calls) <= 1
            /\ exchange.line = "malformed"
                  => /\ exchange.frames = <<>>
                     /\ ~exchange.raised /\ bridge.state = "running" )

C35_Witness ==
    /\ exchange.binding = "bridge"
    /\ exchange.line = "json"
    /\ exchange.message.method = "tools/call"
    /\ exchange.message.id = 7
    /\ Len(exchange.frames) = 1
    /\ exchange.frames[1].id = 7
    /\ exchange.frames[1].code = JSONRPC_SERVER_ERROR
    /\ exchange.frames[1].message = <<"HTTP Error: ", "401">>
    /\ bridge.state = "running"

(* C36: the bridge stops only at the end of its input: after an empty or       *)
(* whitespace-only line it prints nothing and is still running.                *)
C36_OnlyEofStopsBridge ==
    exchange.binding = "bridge"
    => /\ bridge.state = "stopped" => exchange.line = "eof"
       /\ exchange.line = "blank"
             => bridge.state = "running" /\ exchange.frames = <<>>

(* ======================================================================= *)
(*                  Properties of the tasks side by side                   *)
(* ======================================================================= *)
\* The user the task's connection or request was authenticated as.
Authenticated(k) == get_user_id_from_session_token(tasks[k].session_token)

(* C32: whatever other tasks do in between, the credential query of a          *)
(* tools/call is made for the user the task's own session token names, on the  *)
(* WebSocket (local user_id) and on POST /mcp/http and the SSE stream (the     *)
(* ContextVar), and every request to Slack carries the token of an active row  *)
(* of that user.                                                               *)
C32_CredentialOfOwnSession ==
    \A k \in TaskIds :
        /\ tasks[k].lookup # NoneId => tasks[k].lookup = Authenticated(k)
        /\ tasks[k].pc \in {"body", "streaming"}
              => get_current_user(tasks, k) = Authenticated(k)
        /\ \A i \in DOMAIN tasks[k].api_calls :
              \E r \in DOMAIN slack_connections :
                  /\ slack_connections[r].user_id = Authenticated(k)
                  /\ slack_connections[r].status = "active"
                  /\ tasks[k].api_calls[i].authorization
                        = slack_connections[r].bot_access_token

C32_Witness ==
    /\ tasks[1].binding = "http" /\ tasks[1].pc = "done"
    /\ Authenticated(1) = 1
    /\ Len(tasks[1].api_calls) = 1
    /\ tasks[1].api_calls[1].authorization = "xoxb-old"
    /\ tasks[2].binding = "sse" /\ tasks[2].pc = "streaming"
    /\ Authenticated(2) = 2
    /\ Len(tasks[2].api_calls) = 1
    /\ tasks[2].api_calls[1].authorization = "xoxb-2"

====
